---- MODULE Spec2Model ----
(***************************************************************************)
(* Account/session reconciliation of the resume scanner: the `users` table *)
(* (canonical account store), the Supabase auth session of one client, the *)
(* reconciler operations of supabaseClient.ts and the Stripe webhook.      *)
(*                                                                         *)
(* Every `await` of a handler on the store or the auth backend is a        *)
(* suspension point, so each handler is a small process whose steps are    *)
(* the code between two awaits.  A store or auth call can answer with a    *)
(* result, answer with {error}, or reject (throw): Outcomes.               *)
(***************************************************************************)
EXTENDS Naturals, Sequences, FiniteSets

VARIABLES users, session, ens, si, upd, wh, su, co, client, gate, emailVerified,
          lg, sout

vars ==
    <<users, session, ens, si, upd, wh, su, co, client, gate, emailVerified, lg,
      sout>>

(* ------------------------------ bounds -------------------------------- *)

\* Number of distinct auth ids (auth.users.id) in play.
NumIds == 2
\* Largest number of rows the users table holds when the client starts.
MaxInitRows == 2

Ids == 1..NumIds
Emails == {"a@x", "b@x"}
CustIds == {"cus1"}

\* The two reconciliation runs that can race in one client: the one the
\* auth-state listener starts and a second one (a further event or a call).
Runs == {"listener", "second"}
ListenerRun == "listener"

\* JavaScript's undefined/null/'' for a missing string field, and a missing id.
None == ""
NoId == 0

Roles == {"candidate", "recruiter"}
Plans == {"free", "pro"}

\* How a call on the store or on a remote service can end.
Outcomes == {"ok", "error", "throw"}

(* ------------------------ the users table ----------------------------- *)

Row(id, email, role, plan, cust) ==
    [id |-> id, email |-> email, role |-> role, plan |-> plan, cust |-> cust]

CountById(tbl, id) == Cardinality({i \in DOMAIN tbl : tbl[i].id = id})

\* Index of the first row, 0 when the set of indexes is empty (.limit(1)).
FirstOf(S) == IF S = {} THEN 0 ELSE CHOOSE i \in S : \A j \in S : i <= j

SelectById(tbl, id) == FirstOf({i \in DOMAIN tbl : tbl[i].id = id})
SelectByEmail(tbl, email) == FirstOf({i \in DOMAIN tbl : tbl[i].email = email})

\* Faulty variant: the lookup is sent without its stripe_customer_id filter.
SelectByCustomerAny(tbl, cust) == FirstOf(DOMAIN tbl)

\* select ... where stripe_customer_id = cust limit 1
SelectByCustomer(tbl, cust) == FirstOf({i \in DOMAIN tbl : tbl[i].cust = cust})

\* id uuid PRIMARY KEY
PrimaryKeyFree(tbl, id) == \A i \in DOMAIN tbl : tbl[i].id # id

\* email text UNIQUE NOT NULL
EmailFree(tbl, email) == email # None /\ \A i \in DOMAIN tbl : tbl[i].email # email

\* CHECK (role IN ...), CHECK (plan IN ...)
ColumnChecks(row) == row.role \in Roles /\ row.plan \in Plans

\* CONSTRAINT recruiter_requires_pro CHECK (role <> 'recruiter' OR plan = 'pro')
RecruiterRequiresPro(row) == row.role # "recruiter" \/ row.plan = "pro"

RowChecks(row) == ColumnChecks(row) /\ RecruiterRequiresPro(row)

\* Faulty variant: a table without its PRIMARY KEY and UNIQUE constraints.
InsertAcceptedNoUnique(tbl, row) == RowChecks(row)

\* An INSERT is accepted when no constraint of the table rejects the row.
InsertAccepted(tbl, row) ==
    /\ PrimaryKeyFree(tbl, row.id)
    /\ EmailFree(tbl, row.email)
    /\ RowChecks(row)

\* The row is rejected by a uniqueness constraint (a row for it is there).
UniqueViolation(tbl, row) ==
    ~PrimaryKeyFree(tbl, row.id) \/ ~EmailFree(tbl, row.email)

\* Tables that satisfy the schema, of at most n rows.
ValidTable(tbl) ==
    /\ \A i \in DOMAIN tbl : RowChecks(tbl[i])
    /\ \A i, j \in DOMAIN tbl :
         i # j => tbl[i].id # tbl[j].id /\ tbl[i].email # tbl[j].email

AllRows ==
    {Row(id, e, r, p, c) : id \in Ids, e \in Emails, r \in Roles, p \in Plans,
                           c \in CustIds \cup {None}}

TablesUpTo(n) ==
    UNION {{t \in [1..k -> AllRows] : ValidTable(t)} : k \in 0..n}

(* --------------------------- auth session ----------------------------- *)

NoSession == [active |-> FALSE, uid |-> NoId, email |-> None]
Session(uid, email) == [active |-> TRUE, uid |-> uid, email |-> email]

\* supabase.auth.signOut(): the client's session is ended.  The callers
\* ignore the call's result (try { await signOut() } catch {}), and the call
\* is taken to end the session whenever it is made.
AuthSignOut(s) == NoSession

\* Auth users an auth-state event can carry; id or email may be missing.
AuthUsers == {[uid |-> u, email |-> e] : u \in Ids \cup {NoId}, e \in Emails \cup {None}}

(* ---------------------- ensureUserRowForAuth -------------------------- *)

EnsIdle ==
    [pc |-> "idle", uid |-> NoId, email |-> None, ok |-> FALSE, error |-> None,
     so |-> FALSE, dup |-> FALSE]

\* The run returns {ok: true, user}.
EnsOk(e) == [e EXCEPT !.pc = "done", !.ok = TRUE]
\* The run has hit a failure: it logs, signs out and returns {ok: false, error}.
EnsFailing(e, msg) == [e EXCEPT !.pc = "fail", !.error = msg]

\* ensureUserRowForAuth(authUser) up to its first await.
EnsureBegin(authUser) ==
    LET e == [EnsIdle EXCEPT !.uid = authUser.uid, !.email = authUser.email]
    IN  IF authUser.uid = NoId \/ authUser.email = None
        THEN EnsFailing(e, "Missing auth user data")
        ELSE [e EXCEPT !.pc = "byId"]

\* onAuthStateChange(SIGNED_IN | USER_UPDATED, session): the client holds the
\* session of the event and the listener starts a run for its user.
AuthStateEvent(r, authUser) ==
    /\ ens[r].pc = "idle"
    /\ session' = Session(authUser.uid, authUser.email)
    /\ ens' = [ens EXCEPT ![r] = EnsureBegin(authUser)]
    /\ UNCHANGED <<users, si, upd, wh, su, co, client, gate, emailVerified, lg, sout>>

\* Faulty variant: the row found by id is accepted without comparing the emails.
EnsureByIdNoEmailCheck(r, out) ==
    LET e == ens[r]
        i == SelectById(users, e.uid)
    IN  /\ e.pc = "byId"
        /\ ens' = [ens EXCEPT ![r] =
             CASE out = "error" -> EnsFailing(e, "DB error")
               [] out = "throw" -> EnsFailing(e, "Exception")
               [] OTHER -> IF i # 0 THEN EnsOk(e)
                                    ELSE [e EXCEPT !.pc = "byEmail"]]
        /\ UNCHANGED <<users, session, si, upd, wh, su, co, client, gate, emailVerified, lg, sout>>

\* 1) select * from users where id = uid limit 1
EnsureById(r, out) ==
    LET e == ens[r]
        i == SelectById(users, e.uid)
    IN  /\ e.pc = "byId"
        /\ ens' = [ens EXCEPT ![r] =
             CASE out = "error" -> EnsFailing(e, "DB error")
               [] out = "throw" -> EnsFailing(e, "Exception")
               [] OTHER ->
                    IF i # 0
                    THEN IF users[i].email # e.email
                         THEN EnsFailing(e, "User record inconsistency")
                         ELSE EnsOk(e)
                    ELSE [e EXCEPT !.pc = "byEmail"]]
        /\ UNCHANGED <<users, session, si, upd, wh, su, co, client, gate, emailVerified, lg, sout>>

\* Faulty variant: a row that holds the email under another id is taken over: its
\* id is reassigned to the auth id and the run succeeds.
EnsureByEmailMerge(r, out) ==
    LET e == ens[r]
        i == SelectByEmail(users, e.email)
    IN  /\ e.pc = "byEmail"
        /\ ens' = [ens EXCEPT ![r] =
             CASE out = "error" -> EnsFailing(e, "DB error")
               [] out = "throw" -> EnsFailing(e, "Exception")
               [] OTHER -> IF i # 0 THEN EnsOk(e)
                                    ELSE [e EXCEPT !.pc = "insert"]]
        /\ users' = IF out = "ok" /\ i # 0
                    THEN [users EXCEPT ![i].id = e.uid]
                    ELSE users
        /\ UNCHANGED <<session, si, upd, wh, su, co, client, gate, emailVerified, lg, sout>>

\* 2) select * from users where email = email limit 1
EnsureByEmail(r, out) ==
    LET e == ens[r]
        i == SelectByEmail(users, e.email)
    IN  /\ e.pc = "byEmail"
        /\ ens' = [ens EXCEPT ![r] =
             CASE out = "error" -> EnsFailing(e, "DB error")
               [] out = "throw" -> EnsFailing(e, "Exception")
               [] OTHER ->
                    IF i # 0
                    THEN EnsFailing(e, "Email already in use")
                    ELSE [e EXCEPT !.pc = "insert"]]
        /\ UNCHANGED <<users, session, si, upd, wh, su, co, client, gate, emailVerified, lg, sout>>

\* 3) insert {id: uid, email, role: 'candidate'}; plan takes the column default.
EnsurePayload(e) == Row(e.uid, e.email, "candidate", "free", None)

\* Faulty variant: the insert-error branch returns its failure without signing out.
EnsureInsertNoSignOut(r, out) ==
    LET e == ens[r]
        row == EnsurePayload(e)
        accepted == out = "ok" /\ InsertAccepted(users, row)
    IN  /\ e.pc = "insert"
        /\ users' = IF accepted THEN Append(users, row) ELSE users
        /\ ens' = [ens EXCEPT ![r] =
             CASE out = "throw" -> EnsFailing(e, "Exception")
               [] accepted -> EnsOk(e)
               [] OTHER -> [e EXCEPT !.pc = "done",
                                     !.error = "Failed to create user record"]]
        /\ UNCHANGED <<session, si, upd, wh, su, co, client, gate, emailVerified, lg, sout>>

EnsureInsert(r, out) ==
    LET e == ens[r]
        row == EnsurePayload(e)
        accepted == out = "ok" /\ InsertAccepted(users, row)
    IN  /\ e.pc = "insert"
        /\ users' = IF accepted THEN Append(users, row) ELSE users
        /\ ens' = [ens EXCEPT ![r] =
             CASE out = "throw" -> EnsFailing(e, "Exception")
               [] out = "error" -> EnsFailing(e, "Failed to create user record")
               [] OTHER ->
                    IF accepted
                    THEN EnsOk(e)
                    ELSE [EnsFailing(e, "Failed to create user record")
                            EXCEPT !.dup = UniqueViolation(users, row)]]
        /\ UNCHANGED <<session, si, upd, wh, su, co, client, gate, emailVerified, lg, sout>>

\* Every failure: await logAppError(...); try { await signOut() } catch {};
\* return { ok: false, error }.
EnsureFail(r) ==
    /\ ens[r].pc = "fail"
    /\ session' = AuthSignOut(session)
    /\ ens' = [ens EXCEPT ![r] = [@ EXCEPT !.pc = "done", !.so = TRUE]]
    /\ UNCHANGED <<users, si, upd, wh, su, co, client, gate, emailVerified, lg, sout>>

EnsureStep(r) ==
    \/ \E out \in Outcomes : EnsureById(r, out)
    \/ \E out \in Outcomes : EnsureByEmail(r, out)
    \/ \E out \in Outcomes : EnsureInsert(r, out)
    \/ EnsureFail(r)

(* --------------------------- signInWithEmail -------------------------- *)

SiIdle ==
    [pc |-> "idle", email |-> None, authed |-> FALSE, noRow |-> FALSE,
     ok |-> FALSE, error |-> None]

SiReturn(s, msg) == [s EXCEPT !.pc = "done", !.error = msg]

\* supabase.auth.signInWithPassword({email, password}).  When the provider
\* accepts the credentials the client holds a session for the provider's user
\* `uid`, and the SIGNED_IN event starts the listener's reconciliation run.
SignInBegin(email, uid, out) ==
    /\ si.pc = "idle"
    /\ IF out = "ok"
       THEN /\ si' = [SiIdle EXCEPT !.pc = "checkUser", !.email = email,
                                    !.authed = TRUE]
            /\ session' = Session(uid, email)
            /\ ens' = IF ens[ListenerRun].pc = "idle"
                      THEN [ens EXCEPT ![ListenerRun] =
                              EnsureBegin([uid |-> uid, email |-> email])]
                      ELSE ens
       ELSE /\ si' = SiReturn([SiIdle EXCEPT !.email = email],
                       IF out = "error" THEN "Sign-in failed"
                                        ELSE "Unknown sign-in error")
            /\ UNCHANGED <<session, ens>>
    /\ UNCHANGED <<users, upd, wh, su, co, client, gate, emailVerified, lg, sout>>

\* select * from users where email = email limit 1, and the checks on it.
SignInCheckUser(out) ==
    LET i == SelectByEmail(users, si.email)
    IN  /\ si.pc = "checkUser"
        /\ si' =
             CASE out = "error" -> SiReturn(si, "Failed to validate user")
               [] out = "throw" -> SiReturn(si, "Unknown sign-in error")
               [] OTHER ->
                    IF i = 0
                    THEN [si EXCEPT !.pc = "denied", !.noRow = TRUE]
                    ELSE IF users[i].role \notin Roles
                         THEN SiReturn(si, "Access denied.")
                         ELSE [si EXCEPT !.pc = "done", !.ok = TRUE]
        /\ UNCHANGED <<users, session, ens, upd, wh, su, co, client, gate, emailVerified, lg, sout>>

\* Faulty variant: the denial is returned and the fresh session is left standing.
SignInDeniedNoSignOut ==
    /\ si.pc = "denied"
    /\ si' = SiReturn(si, "Access denied. Please sign up.")
    /\ UNCHANGED <<users, session, ens, upd, wh, su, co, client, gate, emailVerified, lg, sout>>

\* No users row: log, sign the fresh session out, return the denial.
SignInDenied ==
    /\ si.pc = "denied"
    /\ session' = AuthSignOut(session)
    /\ si' = SiReturn(si, "Access denied. Please sign up.")
    /\ UNCHANGED <<users, ens, upd, wh, su, co, client, gate, emailVerified, lg, sout>>

(* ------------------- signUpWithEmail, createUserRecord ---------------- *)

\* The role argument of a sign-up: unspecified, a string that is no role, or
\* one of the two roles.
SignUpRoles == {None, "admin"} \cup Roles

\* payload.role || 'candidate' of signUp, then the validation of
\* signUpWithEmail: anything but the two roles becomes candidate.
SignUpRole(role) == IF role # "candidate" /\ role # "recruiter" THEN "candidate" ELSE role

\* The user object the sign-up returns; NoUser while there is none.
NoUser == [id |-> NoId, email |-> None, plan |-> None, isEmailVerified |-> TRUE]

SuIdle ==
    [pc |-> "idle", email |-> None, reqRole |-> None, role |-> None,
     uid |-> NoId, created |-> FALSE, inserted |-> FALSE, ok |-> FALSE,
     error |-> None, user |-> NoUser]

SuReturn(s, msg) == [s EXCEPT !.pc = "done", !.error = msg]

\* signUp's result for the row signUpWithEmail returned: a freshly signed up
\* password user is unverified.
SignUpUser(row) ==
    [id |-> row.id, email |-> row.email, plan |-> row.plan,
     isEmailVerified |-> FALSE]

\* return { user: userRow }, wrapped by signUp.
SuSuccess(s, row, inserted) ==
    [s EXCEPT !.pc = "done", !.ok = TRUE, !.inserted = inserted,
              !.user = SignUpUser(row)]

\* signUp(payload) -> signUpWithEmail up to its first await.
SignUpBegin(email, role) ==
    /\ su.pc = "idle"
    /\ su' = [SuIdle EXCEPT !.pc = "check", !.email = email, !.reqRole = role,
                            !.role = SignUpRole(role)]
    /\ UNCHANGED <<users, session, ens, si, upd, wh, co, client, gate, emailVerified, lg, sout>>

\* Faulty variant: the result of the existence check is not looked at.
SignUpCheckIgnored(out) ==
    /\ su.pc = "check"
    /\ su' =
         CASE out = "error" -> SuReturn(su, "Failed to validate email")
           [] out = "throw" -> SuReturn(su, "Unknown signup error")
           [] OTHER -> [su EXCEPT !.pc = "auth"]
    /\ UNCHANGED <<users, session, ens, si, upd, wh, co, client, gate, emailVerified, lg, sout>>

\* select * from users where email = email limit 1: the duplicate check.
SignUpCheck(out) ==
    LET i == SelectByEmail(users, su.email)
    IN  /\ su.pc = "check"
        /\ su' =
             CASE out = "error" -> SuReturn(su, "Failed to validate email")
               [] out = "throw" -> SuReturn(su, "Unknown signup error")
               [] OTHER ->
                    IF i # 0
                    THEN SuReturn(su, "Email already exists, please sign in")
                    ELSE [su EXCEPT !.pc = "auth"]
        /\ UNCHANGED <<users, session, ens, si, upd, wh, co, client, gate, emailVerified, lg, sout>>

\* supabase.auth.signUp({email, password}).  On success the provider has
\* created the identity; it answers with the user (id `uid`, or no user
\* object: NoId) and, when no confirmation is pending, with a session, whose
\* SIGNED_IN event starts the listener's reconciliation run.
SignUpAuth(out, uid, withSession) ==
    /\ su.pc = "auth"
    /\ IF out = "ok"
       THEN /\ su' = [su EXCEPT !.pc = "lookup", !.created = TRUE, !.uid = uid]
            /\ IF withSession /\ uid # NoId
               THEN /\ session' = Session(uid, su.email)
                    /\ ens' = IF ens[ListenerRun].pc = "idle"
                              THEN [ens EXCEPT ![ListenerRun] =
                                      EnsureBegin([uid |-> uid, email |-> su.email])]
                              ELSE ens
               ELSE UNCHANGED <<session, ens>>
       ELSE /\ su' = SuReturn(su, IF out = "error" THEN "Failed to sign up"
                                                   ELSE "Unknown signup error")
            /\ UNCHANGED <<session, ens>>
    /\ UNCHANGED <<users, si, upd, wh, co, client, gate, emailVerified, lg, sout>>

\* Faulty variant: a recruiter sign-up is created on the pro plan.
CreateUserPlanByRole(role) == IF role = "recruiter" THEN "pro" ELSE "free"

\* createUserRecord's plan parameter: signUpWithEmail passes none, so it is
\* the default 'free' whatever the role.
CreateUserPlan(role) == "free"

\* Faulty variant: createUserRecord without its policy check.
CreatePolicyAllowsAny(role, plan) == TRUE

\* createUserRecord's policy check: recruiter requires the pro plan.
CreatePolicyAllows(role, plan) == ~(role = "recruiter" /\ plan # "pro")

\* createUserRecord: select * from users where email = email limit 1
\* (throwOnError), return the row when there is one, then the policy check.
\* Whatever createUserRecord throws, signUpWithEmail returns the same error.
CreateUserLookup(out) ==
    LET i == SelectByEmail(users, su.email)
    IN  /\ su.pc = "lookup"
        /\ su' =
             CASE out # "ok" -> SuReturn(su, "Failed to create user record")
               [] i # 0 -> SuSuccess(su, users[i], FALSE)
               [] ~CreatePolicyAllows(su.role, CreateUserPlan(su.role)) ->
                    SuReturn(su, "Failed to create user record")
               [] OTHER -> [su EXCEPT !.pc = "insert"]
        /\ UNCHANGED <<users, session, ens, si, upd, wh, co, client, gate, emailVerified, lg, sout>>

\* The ids gen_random_uuid() can give a row that is inserted without an id.
DefaultIds(tbl) ==
    LET free == {id \in Ids : PrimaryKeyFree(tbl, id)}
    IN  IF free = {} THEN Ids ELSE free

\* payload = { email, role, plan }, with id only when the sign-up returned
\* one: otherwise the row gets the column default `gen`.
CreateUserPayload(s, gen) ==
    Row(IF s.uid # NoId THEN s.uid ELSE gen, s.email, s.role,
        CreateUserPlan(s.role), None)

\* createUserRecord: insert(payload).select().maybeSingle()
CreateUserInsert(out, gen) ==
    LET row == CreateUserPayload(su, gen)
        accepted == out = "ok" /\ InsertAccepted(users, row)
    IN  /\ su.pc = "insert"
        /\ gen \in (IF su.uid # NoId THEN {su.uid} ELSE DefaultIds(users))
        /\ users' = IF accepted THEN Append(users, row) ELSE users
        /\ su' = IF accepted THEN SuSuccess(su, row, TRUE)
                 ELSE SuReturn(su, "Failed to create user record")
        /\ UNCHANGED <<session, ens, si, upd, wh, co, client, gate, emailVerified, lg, sout>>

(* ---------------------------- updateUserRole -------------------------- *)

\* Faulty variant: the role change also sets the plan that goes with the role.
RoleUpdatedWithPlan(tbl, id, role) ==
    [i \in DOMAIN tbl |->
        IF tbl[i].id = id
        THEN [tbl[i] EXCEPT !.role = role,
                            !.plan = IF role = "recruiter" THEN "pro" ELSE "free"]
        ELSE tbl[i]]

\* update users set role = role where id = id: the table it leaves.
RoleUpdated(tbl, id, role) ==
    [i \in DOMAIN tbl |->
        IF tbl[i].id = id THEN [tbl[i] EXCEPT !.role = role] ELSE tbl[i]]

\* Faulty variant: a table without the recruiter_requires_pro constraint.
UpdateAcceptedUnchecked(tbl) == \A i \in DOMAIN tbl : ColumnChecks(tbl[i])

\* The store accepts an UPDATE when every row it leaves satisfies the CHECKs.
UpdateAccepted(tbl) == \A i \in DOMAIN tbl : RowChecks(tbl[i])

\* Role values a caller can pass; "admin" stands for any other string.
RoleInputs == Roles \cup {"admin"}

UpdIdle ==
    [pc |-> "idle", userId |-> NoId, newRole |-> None, plan |-> None,
     ok |-> FALSE, error |-> None]

UpdReturn(u, msg) == [u EXCEPT !.pc = "done", !.error = msg]

\* updateUserRole(userId, newRole) up to its first await.
UpdateRoleBegin(userId, newRole) ==
    /\ upd.pc \in {"idle", "done"}
    /\ upd' = LET u == [UpdIdle EXCEPT !.userId = userId, !.newRole = newRole]
              IN  IF newRole # "candidate" /\ newRole # "recruiter"
                  THEN UpdReturn(u, "Invalid role")
                  ELSE [u EXCEPT !.pc = "fetch"]
    /\ UNCHANGED <<users, session, ens, si, wh, su, co, client, gate, emailVerified, lg, sout>>

\* Faulty variant: the plan that was read is not checked against the new role.
RolePolicyAllowsAny(newRole, plan) == TRUE

\* The policy check on the plan that was read: recruiter needs pro.
RolePolicyAllows(newRole, plan) == ~(newRole = "recruiter" /\ plan # "pro")

\* select * from users where id = userId limit 1, then the policy check.
UpdateRoleFetch(out) ==
    LET i == SelectById(users, upd.userId)
    IN  /\ upd.pc = "fetch"
        /\ upd' =
             CASE out = "error" -> UpdReturn(upd, "Failed to fetch user")
               [] out = "throw" -> UpdReturn(upd, "Exception")
               [] OTHER ->
                    IF i = 0
                    THEN UpdReturn(upd, "User not found")
                    ELSE IF ~RolePolicyAllows(upd.newRole, users[i].plan)
                         THEN UpdReturn([upd EXCEPT !.plan = users[i].plan],
                                        "Upgrade to Pro to use recruiter role")
                         ELSE [upd EXCEPT !.pc = "update", !.plan = users[i].plan]
        /\ UNCHANGED <<users, session, ens, si, wh, su, co, client, gate, emailVerified, lg, sout>>

\* update users set role = newRole where id = userId
UpdateRoleWrite(out) ==
    LET tbl == RoleUpdated(users, upd.userId, upd.newRole)
        accepted == out = "ok" /\ UpdateAccepted(tbl)
    IN  /\ upd.pc = "update"
        /\ users' = IF accepted THEN tbl ELSE users
        /\ upd' =
             CASE out = "throw" -> UpdReturn(upd, "Exception")
               [] accepted -> [upd EXCEPT !.pc = "done", !.ok = TRUE]
               [] OTHER -> UpdReturn(upd, "Failed to update role")
        /\ UNCHANGED <<session, ens, si, wh, su, co, client, gate, emailVerified, lg, sout>>

(* ----------------------------- Stripe webhook ------------------------- *)

Checkout == "checkout.session.completed"
Deleted == "customer.subscription.deleted"
EventTypes == {Checkout, Deleted, "invoice.paid"}

\* What the server's environment lacks, if anything.
Envs == {"ok", "STRIPE_SECRET_KEY", "STRIPE_WEBHOOK_SECRET",
         "SUPABASE_SERVICE_ROLE_KEY", "stripe package"}

\* The stripe-signature header: missing, signed with another secret, or
\* signed with the server's signing secret.
Sigs == {None, "forged", "valid"}

\* Faulty variant: any signature header is taken for a valid one.
ConstructEventAny(sig) == TRUE

\* stripe.webhooks.constructEvent(rawBody, sig, STRIPE_WEBHOOK_SECRET) returns
\* the event only for a signature made with the server's secret.
ConstructEventOk(sig) == sig = "valid"

WhIdle ==
    [pc |-> "idle", post |-> TRUE, env |-> "ok", sig |-> None, type |-> None,
     cust |-> None, replay |-> FALSE, uid |-> NoId, status |-> 0,
     touched |-> FALSE, wrote |-> FALSE]

WhRespond(w, status) == [w EXCEPT !.pc = "done", !.status = status]

\* An HTTP request to the endpoint: method, what the server's environment
\* lacks, whether the raw body can be read, the signature header and the
\* event of the body (type, customer, subscription).
Request(post, env, rawOk, sig, type, cust, sub) ==
    [post |-> post, env |-> env, rawOk |-> rawOk, sig |-> sig, type |-> type,
     cust |-> cust, sub |-> sub]

\* The events a body can carry: the subscription of a checkout session
\* matters only when the session names no customer.
Events ==
    {[type |-> t, cust |-> c, sub |-> None] :
        t \in EventTypes, c \in CustIds \cup {None}}
    \cup {[type |-> Checkout, cust |-> None, sub |-> "sub1"]}

\* The requests the model sends: every event with a valid signature on a
\* configured server, and a checkout event for each way the handler refuses
\* a request before it looks at the event.
Requests ==
    {Request(TRUE, "ok", TRUE, "valid", ev.type, ev.cust, ev.sub) : ev \in Events}
    \cup {Request(TRUE, "ok", TRUE, sig, Checkout, c, None) :
            sig \in Sigs, c \in CustIds}
    \cup {Request(TRUE, env, TRUE, "valid", Checkout, c, None) :
            env \in Envs, c \in CustIds}
    \cup {Request(post, "ok", rawOk, "valid", Checkout, c, None) :
            post \in BOOLEAN, rawOk \in BOOLEAN, c \in CustIds}

\* Faulty variant: the body and the signature header are looked at before the
\* server's environment.
WebhookReceiveSignatureFirst(req) ==
    LET w == [WhIdle EXCEPT !.post = req.post, !.env = req.env, !.sig = req.sig,
                !.replay = /\ wh.pc = "done" /\ wh.wrote
                           /\ wh.type = req.type /\ wh.cust = req.cust]
        e == [w EXCEPT !.type = req.type, !.cust = req.cust]
    IN  /\ wh.pc \in {"idle", "done"}
        /\ wh' =
             CASE ~req.post -> WhRespond(w, 405)
               [] ~req.rawOk -> WhRespond(w, 400)
               [] req.sig = None -> WhRespond(w, 400)
               [] req.env \in {"STRIPE_SECRET_KEY", "STRIPE_WEBHOOK_SECRET",
                               "SUPABASE_SERVICE_ROLE_KEY"} -> WhRespond(w, 500)
               [] req.env = "stripe package" -> WhRespond(w, 500)
               [] ~ConstructEventOk(req.sig) -> WhRespond(w, 400)
               [] req.type = Checkout ->
                    IF req.cust = None
                    THEN IF req.sub # None THEN [e EXCEPT !.pc = "retrieve"]
                                            ELSE WhRespond(e, 200)
                    ELSE [e EXCEPT !.pc = "find"]
               [] req.type = Deleted ->
                    IF req.cust = None THEN WhRespond(e, 200)
                                        ELSE [e EXCEPT !.pc = "find"]
               [] OTHER -> WhRespond(e, 200)
        /\ UNCHANGED <<users, session, ens, si, upd, su, co, client, gate, emailVerified, lg, sout>>

\* The handler from the request to its first call on Stripe or the store.
\* `replay` marks a second delivery of the event the handler has just applied.
WebhookReceive(req) ==
    LET w == [WhIdle EXCEPT !.post = req.post, !.env = req.env, !.sig = req.sig,
                !.replay = /\ wh.pc = "done" /\ wh.wrote
                           /\ wh.type = req.type /\ wh.cust = req.cust]
        e == [w EXCEPT !.type = req.type, !.cust = req.cust]
    IN  /\ wh.pc \in {"idle", "done"}
        /\ wh' =
             CASE ~req.post -> WhRespond(w, 405)
               [] req.env \in {"STRIPE_SECRET_KEY", "STRIPE_WEBHOOK_SECRET",
                               "SUPABASE_SERVICE_ROLE_KEY"} -> WhRespond(w, 500)
               [] ~req.rawOk -> WhRespond(w, 400)
               [] req.sig = None -> WhRespond(w, 400)
               [] req.env = "stripe package" -> WhRespond(w, 500)
               [] ~ConstructEventOk(req.sig) -> WhRespond(w, 400)
               [] req.type = Checkout ->
                    IF req.cust = None
                    THEN IF req.sub # None THEN [e EXCEPT !.pc = "retrieve"]
                                            ELSE WhRespond(e, 200)
                    ELSE [e EXCEPT !.pc = "find"]
               [] req.type = Deleted ->
                    IF req.cust = None THEN WhRespond(e, 200)
                                        ELSE [e EXCEPT !.pc = "find"]
               [] OTHER -> WhRespond(e, 200)
        /\ UNCHANGED <<users, session, ens, si, upd, su, co, client, gate, emailVerified, lg, sout>>

\* stripe.subscriptions.retrieve(session.subscription): the fallback for a
\* checkout session without a customer; a failure is logged and ignored.
WebhookRetrieve(out, cust) ==
    /\ wh.pc = "retrieve"
    /\ wh' = IF out = "ok" /\ cust # None
             THEN [wh EXCEPT !.pc = "find", !.cust = cust]
             ELSE WhRespond(wh, 200)
    /\ UNCHANGED <<users, session, ens, si, upd, su, co, client, gate, emailVerified, lg, sout>>

\* select id, role from users where stripe_customer_id = customerId limit 1
WebhookFind(out) ==
    LET i == SelectByCustomer(users, wh.cust)
        w == [wh EXCEPT !.touched = TRUE]
    IN  /\ wh.pc = "find"
        /\ wh' =
             CASE out = "error" -> WhRespond(w, 200)
               [] out = "throw" -> WhRespond(w, 500)
               [] OTHER ->
                    IF i # 0 THEN [w EXCEPT !.pc = "update", !.uid = users[i].id]
                             ELSE WhRespond(w, 200)
        /\ UNCHANGED <<users, session, ens, si, upd, su, co, client, gate, emailVerified, lg, sout>>

\* Faulty variant: the checkout update grants the plan and forgets the role.
WebhookFieldsPlanOnly(type, row) ==
    IF type = Checkout
    THEN [row EXCEPT !.plan = "pro"]
    ELSE [row EXCEPT !.plan = "free", !.role = "candidate"]

\* Faulty variant: the subscription-deleted update demotes the role and leaves
\* the plan for a second statement.
WebhookFieldsRoleOnly(type, row) ==
    IF type = Checkout
    THEN [row EXCEPT !.plan = "pro", !.role = "recruiter"]
    ELSE [row EXCEPT !.role = "candidate"]

\* The fields the handler writes for an event type.
WebhookFields(type, row) ==
    IF type = Checkout
    THEN [row EXCEPT !.plan = "pro", !.role = "recruiter"]
    ELSE [row EXCEPT !.plan = "free", !.role = "candidate"]

\* Faulty variant: the update is sent without its .eq('id', ...) filter.
EventAppliedNoFilter(tbl, id, type) ==
    [i \in DOMAIN tbl |-> WebhookFields(type, tbl[i])]

\* update users set plan = .., role = .. where id = id: the table it leaves.
EventApplied(tbl, id, type) ==
    [i \in DOMAIN tbl |->
        IF tbl[i].id = id THEN WebhookFields(type, tbl[i]) ELSE tbl[i]]

\* update users set plan = .., role = .. where id = users.id
WebhookUpdate(out) ==
    LET tbl == EventApplied(users, wh.uid, wh.type)
        accepted == out = "ok" /\ UpdateAccepted(tbl)
    IN  /\ wh.pc = "update"
        /\ users' = IF accepted THEN tbl ELSE users
        /\ wh' = WhRespond([wh EXCEPT !.touched = TRUE, !.wrote = accepted],
                           IF out = "throw" THEN 500 ELSE 200)
        /\ UNCHANGED <<session, ens, si, upd, su, co, client, gate, emailVerified, lg, sout>>

(* ------------------- create-checkout-session endpoint ----------------- *)

\* What the server's environment lacks for this endpoint, if anything.
CoEnvs == {"ok", "STRIPE_SECRET_KEY", "STRIPE_PRICE_ID",
           "SUPABASE_SERVICE_ROLE_KEY", "VITE_SITE_URL", "stripe package"}

CoIdle ==
    [pc |-> "idle", env |-> "ok", uid |-> NoId, cust |-> None, status |-> 0]

CoRespond(c, status) == [c EXCEPT !.pc = "done", !.status = status]

\* The handler from the request to its read of the users row: method and
\* environment checks, then the bearer token resolved to its auth user by
\* getSupabaseAuthUser (uid; NoId for a missing or rejected token).
CheckoutBegin(post, env, uid) ==
    LET c == [CoIdle EXCEPT !.env = env]
    IN  /\ co.pc \in {"idle", "done"}
        /\ co' =
             CASE ~post -> CoRespond(c, 405)
               [] env \in {"STRIPE_SECRET_KEY", "STRIPE_PRICE_ID",
                           "SUPABASE_SERVICE_ROLE_KEY", "VITE_SITE_URL"} ->
                    CoRespond(c, 500)
               [] uid = NoId -> CoRespond(c, 401)
               [] OTHER -> [c EXCEPT !.pc = "fetch", !.uid = uid]
        /\ UNCHANGED <<users, session, ens, si, upd, wh, su, client, gate, emailVerified, lg, sout>>

\* select id, email, plan, stripe_customer_id from users where id = authUser.id,
\* the eligibility checks, and the customer the row already has.
CheckoutFetch(out) ==
    LET i == SelectById(users, co.uid)
    IN  /\ co.pc = "fetch"
        /\ co' =
             CASE out # "ok" -> CoRespond(co, 500)
               [] i = 0 -> CoRespond(co, 400)
               [] users[i].plan = "pro" -> CoRespond(co, 400)
               [] co.env = "stripe package" -> CoRespond(co, 500)
               [] users[i].cust # None ->
                    [co EXCEPT !.pc = "session", !.cust = users[i].cust]
               [] OTHER -> [co EXCEPT !.pc = "customer"]
        /\ UNCHANGED <<users, session, ens, si, upd, wh, su, client, gate, emailVerified, lg, sout>>

\* stripe.customers.create({email, metadata}): the new customer's id.
CheckoutCustomer(out, cust) ==
    /\ co.pc = "customer"
    /\ co' = IF out = "ok" THEN [co EXCEPT !.pc = "save", !.cust = cust]
                           ELSE CoRespond(co, 500)
    /\ UNCHANGED <<users, session, ens, si, upd, wh, su, client, gate, emailVerified, lg, sout>>

\* update users set stripe_customer_id = cust where id = id: the table it leaves.
CustomerSaved(tbl, id, cust) ==
    [i \in DOMAIN tbl |->
        IF tbl[i].id = id THEN [tbl[i] EXCEPT !.cust = cust] ELSE tbl[i]]

\* The customer id is saved on the row; an {error} is logged and the
\* checkout goes on, a rejected call ends in the customer catch (500).
CheckoutSave(out) ==
    /\ co.pc = "save"
    /\ users' = IF out = "ok" THEN CustomerSaved(users, co.uid, co.cust) ELSE users
    /\ co' = IF out = "throw" THEN CoRespond(co, 500)
                              ELSE [co EXCEPT !.pc = "session"]
    /\ UNCHANGED <<session, ens, si, upd, wh, su, client, gate, emailVerified, lg, sout>>

\* stripe.checkout.sessions.create({customer, ...}): 200 with the url.
CheckoutSession(out) ==
    /\ co.pc = "session"
    /\ co' = CoRespond(co, IF out = "ok" THEN 200 ELSE 500)
    /\ UNCHANGED <<users, session, ens, si, upd, wh, su, client, gate, emailVerified, lg, sout>>

(* --------------- the client: configuration and identity --------------- *)

\* The provider names a user object can carry; "Email" is a spelling that is
\* not lower case.
Providers == {"email", "Email", "google"}

\* Longest identities list of a user object.
MaxIdentities == 2

\* String(p).toLowerCase() on the provider names in play.
Lower(p) == IF p = "Email" THEN "email" ELSE p

\* JavaScript's a || b on strings that may be missing.
OrElse(a, b) == IF a # None THEN a ELSE b

\* The user object supabase.auth.getUser() answers with: app_metadata.provider,
\* the top-level provider field, the providers of the identities list and
\* whether email_confirmed_at is set.
Identity(app, top, identities, confirmed) ==
    [id |-> 1, email |-> "a@x", app |-> app, top |-> top,
     identities |-> identities, confirmed |-> confirmed]

\* data.user = null: nobody is signed in.
NoIdentity ==
    [id |-> NoId, email |-> None, app |-> None, top |-> None,
     identities |-> << >>, confirmed |-> FALSE]

ProviderLists == UNION {[1..n -> Providers] : n \in 0..MaxIdentities}

Identities ==
    {Identity(a, t, l, c) : a \in Providers \cup {None},
                            t \in Providers \cup {None},
                            l \in ProviderLists, c \in BOOLEAN}

\* One browser: whether the Supabase url and key are configured, the email in
\* localStorage 'resuscan_session', whether 'resuscan_users' holds an account
\* with a password for that email, and the signed-in user object.
Client(configured, local, pwd, user) ==
    [configured |-> configured, local |-> local, pwd |-> pwd, user |-> user]

DefaultClient == Client(TRUE, None, FALSE, NoIdentity)

\* The local fallback store: no session, or a session with or without a
\* stored password.
LocalStores == {<<None, FALSE>>, <<"a@x", FALSE>>, <<"a@x", TRUE>>}

\* A client without configuration never gets a user object (the stub client).
Clients ==
    {Client(TRUE, s[1], s[2], u) :
        s \in LocalStores, u \in Identities \cup {NoIdentity}}
    \cup {Client(FALSE, s[1], s[2], NoIdentity) : s \in LocalStores}

(* --------------------- the feature-gating functions ------------------- *)

\* A JavaScript boolean as the caller receives it ("null" is neither).
JsBool(b) == IF b THEN "true" ELSE "false"

GuestDefaults ==
    [isGuest |-> "true", isOAuthUser |-> "false", isEmailUser |-> "false",
     isEmailVerified |-> "false"]

\* getAuthStatus without configuration: the local session decides.
LocalStatus(local) ==
    [isGuest |-> JsBool(local = None), isOAuthUser |-> "false",
     isEmailUser |-> JsBool(local # None), isEmailVerified |-> "false"]

\* The provider getAuthStatus works with.
StatusProvider(user) ==
    OrElse(user.app,
           OrElse(user.top,
                  IF Len(user.identities) > 0 THEN user.identities[1] ELSE None))

\* Faulty variant: every signed-in identity counts as an email user.
FlagsOfEmailByDefault(provider, confirmed) ==
    LET oauth == IF provider = None THEN "null"
                 ELSE JsBool(Lower(provider) # "email")
    IN  [isGuest |-> "false",
         isOAuthUser |-> oauth,
         isEmailUser |-> "true",
         isEmailVerified |-> IF confirmed THEN "true" ELSE oauth]

\* Faulty variant: only a confirmed email counts as verified.
FlagsOfConfirmedOnly(provider, confirmed) ==
    [isGuest |-> "false",
     isOAuthUser |-> IF provider = None THEN "null"
                     ELSE JsBool(Lower(provider) # "email"),
     isEmailUser |-> IF provider # None THEN JsBool(Lower(provider) = "email")
                     ELSE "true",
     isEmailVerified |-> JsBool(confirmed)]

\* The flags getAuthStatus derives from a provider: `provider && ...` is null
\* without a provider, and `!!email_confirmed_at || isOAuthUser` passes
\* isOAuthUser on when the email is not confirmed.
FlagsOf(provider, confirmed) ==
    LET oauth == IF provider = None THEN "null"
                 ELSE JsBool(Lower(provider) # "email")
    IN  [isGuest |-> "false",
         isOAuthUser |-> oauth,
         isEmailUser |-> IF provider # None
                         THEN JsBool(Lower(provider) = "email") ELSE "true",
         isEmailVerified |-> IF confirmed THEN "true" ELSE oauth]

\* The provider getAuthProvider returns for a user object (None for null).
ProviderOf(user) ==
    IF user.app # None THEN Lower(user.app)
    ELSE IF Len(user.identities) > 0 /\ user.identities[1] # None
         THEN Lower(user.identities[1])
    ELSE IF user.top # None THEN Lower(user.top)
    ELSE None

\* Faulty variant: without any provider the password change is offered.
PasswordCapableByDefault(user) ==
    IF Len(user.identities) > 0
    THEN \E i \in 1..Len(user.identities) : user.identities[i] = "email"
    ELSE LET provider == OrElse(user.app, user.top)
         IN  IF provider # None THEN provider = "email" ELSE TRUE

\* canChangePassword on a user object: some identity of the list is 'email';
\* without a list, app_metadata.provider || provider is 'email'.
PasswordCapable(user) ==
    IF Len(user.identities) > 0
    THEN \E i \in 1..Len(user.identities) : user.identities[i] = "email"
    ELSE LET provider == OrElse(user.app, user.top)
         IN  IF provider # None THEN provider = "email" ELSE FALSE

\* Faulty variant: a rejected insert into app_errors escapes logAppError.
LogAppErrorUnguarded(out) == IF out = "throw" THEN "thrown" ELSE "returned"

\* logAppError around its insert into app_errors: whatever the insert does,
\* the helper returns.
LogAppError(out) == "returned"

\* The value of the email_verified column of a row when the table has no
\* such column.
Absent == "absent"
ColumnValues == {"null", "true", "false"}

\* The email_verified column of the users table, by row id.
NoColumn == [i \in Ids |-> Absent]
ColumnStates == {[i \in Ids |-> v] : v \in {Absent} \cup ColumnValues}

\* 'email_verified' in row && row.email_verified === false
StoredUnverified(v) == v # Absent /\ v = "false"

\* What supabase.auth.getUser() resolves to.
GetUserResponse(user) == [data |-> [user |-> user], error |-> None]

\* Faulty variant: the user of the destructured data.
UpgradeLiveUserDirect(current) == current.user

\* verifyUserForUpgrade's `(current as any).data?.user`, where current is
\* already the response's data.
UpgradeLiveUser(current) ==
    IF "data" \in DOMAIN current THEN current.data.user ELSE NoIdentity

\* The live check of verifyUserForUpgrade on a user object: an email account
\* (or one without provider) whose email is not confirmed.
LiveUnverified(user) ==
    LET provider == OrElse(user.app, user.top)
        isEmail == IF provider # None THEN Lower(provider) = "email" ELSE TRUE
        emailConfirmed == user.confirmed \/ ~isEmail
    IN  user # NoIdentity /\ user.email # None /\ isEmail /\ ~emailConfirmed

Fns == {"getAuthStatus", "canChangePassword", "getAuthProvider",
        "updateCurrentUserRole", "verifyUserForUpgrade", "resendVerification"}

\* One call of a feature-gating function: the function and its argument, how
\* its backend calls ended (out, out2, logOut), the email_verified it read
\* (stored) and what it returns: flags for getAuthStatus, can for
\* canChangePassword, text for the provider, the reason or the error of the
\* others (None: none).
GateIdle ==
    [pc |-> "idle", fn |-> None, uid |-> NoId, role |-> None,
     out |-> None, out2 |-> None, logOut |-> None, stored |-> Absent,
     flags |-> GuestDefaults, can |-> FALSE, text |-> None]

GateReturn(g) == [g EXCEPT !.pc = "done"]

\* What each function returns without configuration.
Unconfigured(g) ==
    CASE g.fn = "getAuthStatus" -> [g EXCEPT !.flags = LocalStatus(client.local)]
      [] g.fn = "canChangePassword" ->
            [g EXCEPT !.can = client.local # None /\ client.pwd]
      [] g.fn = "getAuthProvider" -> g
      [] g.fn = "verifyUserForUpgrade" ->
            [g EXCEPT !.text = "supabase_not_configured"]
      [] OTHER -> [g EXCEPT !.text = "Supabase not configured"]

\* What each function returns from its catch block.
Caught(g) ==
    CASE g.fn = "getAuthStatus" -> [g EXCEPT !.flags = GuestDefaults]
      [] g.fn = "canChangePassword" -> [g EXCEPT !.can = FALSE]
      [] g.fn = "getAuthProvider" -> [g EXCEPT !.text = None]
      [] g.fn = "verifyUserForUpgrade" -> [g EXCEPT !.text = "exception"]
      [] g.fn = "updateCurrentUserRole" ->
            [g EXCEPT !.text = "Failed to update role"]
      [] OTHER -> [g EXCEPT !.text = "Failed to resend verification"]

\* The catch block: logAppError is awaited, then the value is returned.
GateCatch(g) == [Caught(g) EXCEPT !.pc = "catch"]

\* What the getUser callers return on res.error.
GetUserFailed(g) ==
    CASE g.fn = "getAuthStatus" -> [g EXCEPT !.flags = GuestDefaults]
      [] g.fn = "canChangePassword" -> [g EXCEPT !.can = FALSE]
      [] g.fn = "getAuthProvider" -> [g EXCEPT !.text = None]
      [] OTHER -> [g EXCEPT !.text = "Failed to determine current user"]

\* What the getUser callers return for data.user = null.
NoUserSignedIn(g) ==
    CASE g.fn = "getAuthStatus" -> [g EXCEPT !.flags = GuestDefaults]
      [] g.fn = "canChangePassword" -> [g EXCEPT !.can = FALSE]
      [] g.fn = "getAuthProvider" -> [g EXCEPT !.text = None]
      [] OTHER -> [g EXCEPT !.text = "No authenticated user"]

\* What the three identity functions return for a user object.
ForUser(g, user) ==
    CASE g.fn = "getAuthStatus" ->
            [g EXCEPT !.flags = FlagsOf(StatusProvider(user), user.confirmed)]
      [] g.fn = "canChangePassword" -> [g EXCEPT !.can = PasswordCapable(user)]
      [] OTHER -> [g EXCEPT !.text = ProviderOf(user)]

\* A call begins: without configuration it returns at once, otherwise it
\* issues its first backend call.  updateCurrentUserRole, the one function
\* that writes, is the last call of a client.
GateBegin(fn, uid, role) ==
    LET g == [GateIdle EXCEPT !.fn = fn, !.uid = uid, !.role = role]
    IN  /\ gate.pc \in {"idle", "done"}
        /\ upd.pc = "idle"
        /\ gate' =
             CASE ~client.configured -> GateReturn(Unconfigured(g))
               [] fn = "verifyUserForUpgrade" -> [g EXCEPT !.pc = "fetch"]
               [] fn = "resendVerification" -> [g EXCEPT !.pc = "resend"]
               [] OTHER -> [g EXCEPT !.pc = "getUser"]
        /\ UNCHANGED <<users, session, ens, si, upd, wh, su, co, client,
                       emailVerified, lg, sout>>

\* supabase.auth.getUser() of the identity functions and of
\* updateCurrentUserRole ends.
GateGetUser(out) ==
    LET g == [gate EXCEPT !.out = out]
    IN  /\ gate.pc = "getUser"
        /\ gate' =
             CASE out = "throw" -> GateCatch(g)
               [] out = "error" -> [GetUserFailed(g) EXCEPT !.pc = "log"]
               [] client.user = NoIdentity -> GateReturn(NoUserSignedIn(g))
               [] g.fn = "updateCurrentUserRole" ->
                    [g EXCEPT !.pc = "update", !.uid = client.user.id]
               [] OTHER -> GateReturn(ForUser(g, client.user))
        /\ UNCHANGED <<users, session, ens, si, upd, wh, su, co, client,
                       emailVerified, lg, sout>>

\* updateCurrentUserRole hands over to updateUserRole(user.id, newRole).
GateUpdateCall ==
    /\ gate.pc = "update"
    /\ upd.pc = "idle"
    /\ UpdateRoleBegin(gate.uid, gate.role)

\* updateUserRole has returned {user} or {error}; it is passed on.
GateUpdateReturn ==
    /\ gate.pc = "update"
    /\ upd.pc = "done"
    /\ gate' = GateReturn([gate EXCEPT !.text = upd.error])
    /\ UNCHANGED <<users, session, ens, si, upd, wh, su, co, client,
                   emailVerified, lg, sout>>

\* supabase.auth.resend({type: 'signup', email}) ends.
GateResend(out) ==
    LET g == [gate EXCEPT !.out = out]
    IN  /\ gate.pc = "resend"
        /\ gate' =
             CASE out = "throw" -> GateCatch(g)
               [] out = "error" -> [g EXCEPT !.pc = "log", !.text = "error"]
               [] OTHER -> GateReturn(g)
        /\ UNCHANGED <<users, session, ens, si, upd, wh, su, co, client,
                       emailVerified, lg, sout>>

\* verifyUserForUpgrade: select * from users where id = userId, and the
\* stored email_verified of the row.
GateFetch(out) ==
    LET i == SelectById(users, gate.uid)
        g == [gate EXCEPT !.out = out,
                          !.stored = IF out = "ok" /\ i # 0
                                     THEN emailVerified[users[i].id] ELSE Absent]
    IN  /\ gate.pc = "fetch"
        /\ gate' =
             CASE out = "throw" -> GateCatch(g)
               [] out = "error" ->
                    [g EXCEPT !.pc = "log", !.text = "failed_fetch"]
               [] i = 0 -> GateReturn([g EXCEPT !.text = "user_not_found"])
               [] StoredUnverified(g.stored) ->
                    GateReturn([g EXCEPT !.text = "email_not_verified"])
               [] OTHER -> [g EXCEPT !.pc = "live"]
        /\ UNCHANGED <<users, session, ens, si, upd, wh, su, co, client,
                       emailVerified, lg, sout>>

\* verifyUserForUpgrade: the best-effort look at the live identity; a
\* rejected getUser is ignored by the inner catch.
GateLive(out) ==
    LET g == [gate EXCEPT !.out2 = out]
        response == GetUserResponse(IF out = "ok" THEN client.user
                                                  ELSE NoIdentity)
        current == response.data
    IN  /\ gate.pc = "live"
        /\ gate' =
             IF out # "throw" /\ LiveUnverified(UpgradeLiveUser(current))
             THEN GateReturn([g EXCEPT !.text = "email_not_verified"])
             ELSE GateReturn([g EXCEPT !.text = "ok"])
        /\ UNCHANGED <<users, session, ens, si, upd, wh, su, co, client,
                       emailVerified, lg, sout>>

\* The awaited logAppError ends: the function returns what it had decided;
\* an exception out of the try block would land in the catch block, one out
\* of the catch block would leave the function.
GateLog(out) ==
    LET g == [gate EXCEPT !.logOut = out]
    IN  /\ gate.pc \in {"log", "catch"}
        /\ gate' =
             CASE LogAppError(out) = "returned" -> GateReturn(g)
               [] gate.pc = "log" -> GateCatch(g)
               [] OTHER -> [g EXCEPT !.pc = "thrown"]
        /\ UNCHANGED <<users, session, ens, si, upd, wh, su, co, client,
                       emailVerified, lg, sout>>

\* getCurrentUser as far as it writes: with a user object and the row of its
\* email, the detached `update users set email_verified = isEmailVerified
\* where id = row.id` when the row has the column; a failed update is ignored.
GetCurrentUserSync(out) ==
    LET user == client.user
        i == SelectByEmail(users, user.email)
        isEmailVerified ==
            FlagsOf(StatusProvider(user), user.confirmed).isEmailVerified
    IN  /\ client.configured
        /\ user # NoIdentity
        /\ i # 0
        /\ emailVerified[users[i].id] # Absent
        /\ emailVerified' =
             IF out = "ok"
             THEN [emailVerified EXCEPT ![users[i].id] = isEmailVerified]
             ELSE emailVerified
        /\ UNCHANGED <<users, session, ens, si, upd, wh, su, co, client, gate,
                       lg, sout>>

(* ------------------------------ signOutUser --------------------------- *)

\* signOutUser and the LOGOUT row of auth_logs it leaves: uid and email are
\* the identity of the session it was called in, logUid and logEmail the
\* user_id and email of the row once it is written.
SoutIdle ==
    [pc |-> "idle", uid |-> NoId, email |-> None, returned |-> FALSE,
     logged |-> FALSE, logUid |-> NoId, logEmail |-> None]

\* data.user of auth.getUser(): the user of the session, null without one.
NoAuthUser == [id |-> NoId, email |-> None]
SessionUser(s) == IF s.active THEN [id |-> s.uid, email |-> s.email] ELSE NoAuthUser

\* `(current as any).data.user`, where current is already the response's
\* data: null whenever data has no field data.
SignOutCurrentUser(current) ==
    IF "data" \in DOMAIN current THEN current.data.user ELSE NoAuthUser

\* signOutUser() up to its await of auth.signOut().
SignOutBegin ==
    /\ sout.pc \in {"idle", "done"}
    /\ sout' = [SoutIdle EXCEPT !.pc = "signOut", !.uid = session.uid,
                                !.email = session.email]
    /\ UNCHANGED <<session, users, ens, si, upd, wh, su, co, client, gate, emailVerified, lg>>

\* auth.signOut() ends.  Without configuration signOutUser returns after
\* it; a rejected call is logged by the outer catch; otherwise the detached
\* block is started, which calls auth.getUser(), and signOutUser returns.
\* The listener leaves the SIGNED_OUT event alone: it carries no session.
SignOutCall(out) ==
    /\ sout.pc = "signOut"
    /\ session' = AuthSignOut(session)
    /\ sout' = IF client.configured /\ out # "throw"
               THEN [sout EXCEPT !.pc = "getUser", !.returned = TRUE]
               ELSE [sout EXCEPT !.pc = "done", !.returned = TRUE]
    /\ UNCHANGED <<users, ens, si, upd, wh, su, co, client, gate, emailVerified, lg>>

\* auth.getUser() of the detached block ends: user_id and email of the row
\* are read off its answer; a rejected call is logged and nothing is written.
SignOutGetUser(out) ==
    LET res == GetUserResponse(IF out = "ok" THEN SessionUser(session)
                                             ELSE NoAuthUser)
        current == res.data
        user == SignOutCurrentUser(current)
    IN  /\ sout.pc = "getUser"
        /\ sout' = IF out = "throw"
                   THEN [sout EXCEPT !.pc = "done"]
                   ELSE [sout EXCEPT !.pc = "insert", !.logUid = user.id,
                                     !.logEmail = user.email]
        /\ UNCHANGED <<session, users, ens, si, upd, wh, su, co, client, gate, emailVerified, lg>>

\* insertAuthLog({user_id, email, action: 'LOGOUT'}): the row is written
\* unless the insert fails.
SignOutInsert(out) ==
    /\ sout.pc = "insert"
    /\ sout' = [sout EXCEPT !.pc = "done", !.logged = (out = "ok")]
    /\ UNCHANGED <<session, users, ens, si, upd, wh, su, co, client, gate, emailVerified, lg>>

(* ------------------- log writes of the operations --------------------- *)

\* The operations that log, and the awaited backend calls of each in order.
LogOps == {"signIn", "signUp", "updateRole", "ensure"}

OpCalls(op) ==
    CASE op = "signIn" -> <<"auth", "checkUser">>
      [] op = "signUp" -> <<"check", "auth", "createUser">>
      [] op = "updateRole" -> <<"fetch", "update">>
      [] OTHER -> <<"checkById", "checkByEmail", "insert">>

\* How a call can end for the operation: an outcome of Outcomes, or an answer
\* on which the operation returns at once: "found" (the row is there: success),
\* "denied" (refusal that is logged), "refused" (refusal that is not).
Answers(op, call) ==
    Outcomes
    \cup (IF <<op, call>> \in {<<"signIn", "checkUser">>,
                               <<"updateRole", "fetch">>,
                               <<"ensure", "checkById">>,
                               <<"ensure", "checkByEmail">>}
          THEN {"denied"} ELSE {})
    \cup (IF <<op, call>> \in {<<"signUp", "check">>, <<"updateRole", "fetch">>}
          THEN {"refused"} ELSE {})
    \cup (IF <<op, call>> = <<"ensure", "checkById">> THEN {"found"} ELSE {})

\* The number of `await logAppError(...)` between an answer and the return:
\* a failing createUserRecord logs twice itself before signUp logs.
AwaitedWrites(op, call, ans) ==
    IF ans \in {"error", "throw", "denied"}
    THEN IF <<op, call>> = <<"signUp", "createUser">> THEN 3 ELSE 1
    ELSE 0

\* The operations that start insertAuthLog({action: 'LOGIN'}) on success,
\* without awaiting it.
LogsLogin(op) == op \in {"signIn", "ensure"}

\* Most log writes in flight that nobody awaits.
MaxDetached == 2

\* One operation seen from its log writes: the call it is at, the awaited
\* writes it still has to wait for, its result, and the writes in flight
\* that nobody awaits (auth_logs inserts and their app_errors follow-ups).
LgIdle ==
    [pc |-> "idle", op |-> None, step |-> 0, awaited |-> 0, result |-> None,
     authLogs |-> 0, errLogs |-> 0]

LogOpBegin(op) ==
    /\ lg.pc \in {"idle", "done"}
    /\ lg.authLogs + lg.errLogs < MaxDetached
    /\ lg' = [lg EXCEPT !.pc = "call", !.op = op, !.step = 1,
                        !.awaited = 0, !.result = None]
    /\ UNCHANGED <<users, session, ens, si, upd, wh, su, co, client, gate,
                   emailVerified, sout>>

\* The success return: the LOGIN log is started and left behind.
LogOpSucceeds(l) ==
    [l EXCEPT !.pc = "done", !.result = "ok",
              !.authLogs = IF LogsLogin(l.op) THEN @ + 1 ELSE @]

\* An awaited call of the operation ends.
LogOpCall(ans) ==
    LET call == OpCalls(lg.op)[lg.step]
        n == AwaitedWrites(lg.op, call, ans)
    IN  /\ lg.pc = "call"
        /\ ans \in Answers(lg.op, call)
        /\ lg' =
             CASE n > 0 -> [lg EXCEPT !.pc = "log", !.awaited = n,
                                      !.result = "error"]
               [] ans = "refused" -> [lg EXCEPT !.pc = "done", !.result = "error"]
               [] ans = "found" -> LogOpSucceeds(lg)
               [] lg.step < Len(OpCalls(lg.op)) -> [lg EXCEPT !.step = @ + 1]
               [] OTHER -> LogOpSucceeds(lg)
        /\ UNCHANGED <<users, session, ens, si, upd, wh, su, co, client, gate,
                       emailVerified, sout>>

\* The insert into app_errors an operation is waiting for ends, in whatever
\* way: after the last one the operation returns.
LogAwaitedEnds(out) ==
    /\ lg.pc = "log"
    /\ LogAppError(out) = "returned"
    /\ lg' = IF lg.awaited > 1 THEN [lg EXCEPT !.awaited = @ - 1]
                               ELSE [lg EXCEPT !.awaited = 0, !.pc = "done"]
    /\ UNCHANGED <<users, session, ens, si, upd, wh, su, co, client, gate,
                   emailVerified, sout>>

\* A detached insert into auth_logs ends; a rejected one is reported by
\* insertAuthLog's catch with logAppError, still detached.
AuthLogEnds(out) ==
    /\ lg.authLogs > 0
    /\ lg' = [lg EXCEPT !.authLogs = @ - 1,
                        !.errLogs = IF out = "throw" THEN @ + 1 ELSE @]
    /\ UNCHANGED <<users, session, ens, si, upd, wh, su, co, client, gate,
                   emailVerified, sout>>

\* A detached insert into app_errors ends.
ErrLogEnds(out) ==
    /\ lg.errLogs > 0
    /\ lg' = [lg EXCEPT !.errLogs = @ - 1]
    /\ UNCHANGED <<users, session, ens, si, upd, wh, su, co, client, gate,
                   emailVerified, sout>>

(* --------------------------- specifications --------------------------- *)

InitIdle ==
    /\ session = NoSession
    /\ ens = [r \in Runs |-> EnsIdle]
    /\ si = SiIdle
    /\ upd = UpdIdle
    /\ wh = WhIdle
    /\ su = SuIdle
    /\ co = CoIdle
    /\ gate = GateIdle
    /\ lg = LgIdle
    /\ sout = SoutIdle

\* The client of the deployment: configured, nothing in its local store,
\* and a users table as the repository's schema creates it, without an
\* email_verified column.
InitClient ==
    /\ client = DefaultClient
    /\ emailVerified = NoColumn

Init ==
    /\ users \in TablesUpTo(MaxInitRows)
    /\ InitClient
    /\ InitIdle

\* The auth-state listener's reconciliation runs against the shared table.
NextEnsure ==
    \/ \E r \in Runs, u \in AuthUsers : AuthStateEvent(r, u)
    \/ \E r \in Runs : EnsureStep(r)

SpecEnsure == Init /\ [][NextEnsure]_vars

\* A password sign-in, with the reconciliation run its SIGNED_IN event starts.
NextSignIn ==
    \/ \E e \in Emails, u \in Ids, out \in Outcomes : SignInBegin(e, u, out)
    \/ \E out \in Outcomes : SignInCheckUser(out)
    \/ SignInDenied
    \/ EnsureStep(ListenerRun)

SpecSignIn == Init /\ [][NextSignIn]_vars

\* A sign-up, with the reconciliation run its session (if any) starts.
NextSignUp ==
    \/ \E e \in Emails, role \in SignUpRoles : SignUpBegin(e, role)
    \/ \E out \in Outcomes : SignUpCheck(out)
    \/ \E out \in Outcomes, u \in Ids \cup {NoId}, ws \in BOOLEAN :
            SignUpAuth(out, u, ws)
    \/ \E out \in Outcomes : CreateUserLookup(out)
    \/ \E out \in Outcomes, gen \in Ids : CreateUserInsert(out, gen)
    \/ EnsureStep(ListenerRun)

SpecSignUp == Init /\ [][NextSignUp]_vars

\* Role changes of the client racing with the payment provider's events.
NextBilling ==
    \/ \E id \in Ids, role \in RoleInputs : UpdateRoleBegin(id, role)
    \/ \E out \in Outcomes : UpdateRoleFetch(out)
    \/ \E out \in Outcomes : UpdateRoleWrite(out)
    \/ \E req \in Requests : WebhookReceive(req)
    \/ \E out \in {"ok", "throw"}, cust \in CustIds \cup {None} :
            WebhookRetrieve(out, cust)
    \/ \E out \in Outcomes : WebhookFind(out)
    \/ \E out \in Outcomes : WebhookUpdate(out)

SpecBilling == Init /\ [][NextBilling]_vars

\* The requests to the checkout endpoint: a token of each auth user on a
\* configured server, and one request for each way the handler refuses
\* before it reads the table.
CheckoutStep ==
    \/ \E uid \in Ids \cup {NoId} : CheckoutBegin(TRUE, "ok", uid)
    \/ \E env \in CoEnvs, uid \in Ids : CheckoutBegin(TRUE, env, uid)
    \/ \E uid \in Ids : CheckoutBegin(FALSE, "ok", uid)
    \/ \E out \in Outcomes : CheckoutFetch(out)
    \/ \E out \in {"ok", "throw"}, cust \in CustIds : CheckoutCustomer(out, cust)
    \/ \E out \in Outcomes : CheckoutSave(out)
    \/ \E out \in {"ok", "throw"} : CheckoutSession(out)

\* An account from sign-up to the paid plan: the sign-up of an email (no
\* session while its confirmation is pending), the checkout endpoint called
\* with a valid token, the provider's signed checkout-completed events and
\* the client's requests for the recruiter role, every call on the store and
\* on the providers answering.
JourneyRequests ==
    {Request(TRUE, "ok", TRUE, "valid", Checkout, c, None) : c \in CustIds}

NextJourney ==
    \/ \E e \in Emails, role \in SignUpRoles : SignUpBegin(e, role)
    \/ SignUpCheck("ok")
    \/ \E u \in Ids \cup {NoId} : SignUpAuth("ok", u, FALSE)
    \/ CreateUserLookup("ok")
    \/ \E gen \in Ids : CreateUserInsert("ok", gen)
    \/ \E uid \in Ids : CheckoutBegin(TRUE, "ok", uid)
    \/ CheckoutFetch("ok")
    \/ \E cust \in CustIds : CheckoutCustomer("ok", cust)
    \/ CheckoutSave("ok")
    \/ CheckoutSession("ok")
    \/ \E id \in Ids : UpdateRoleBegin(id, "recruiter")
    \/ UpdateRoleFetch("ok")
    \/ UpdateRoleWrite("ok")
    \/ \E req \in JourneyRequests : WebhookReceive(req)
    \/ WebhookFind("ok")
    \/ WebhookUpdate("ok")

\* A deployment whose users table is still empty.
InitJourney == users = << >> /\ InitClient /\ InitIdle

SpecJourney == InitJourney /\ [][NextJourney]_vars

\* The signed events that make the handler write: both types, with a customer.
SignedRequests ==
    {Request(TRUE, "ok", TRUE, "valid", t, c, None) :
        t \in {Checkout, Deleted}, c \in CustIds}

\* The writers of role and plan: the client's role changes and the handler
\* on signed events.
NextRoleAndPlan ==
    \/ \E id \in Ids, role \in RoleInputs : UpdateRoleBegin(id, role)
    \/ \E out \in Outcomes : UpdateRoleFetch(out)
    \/ \E out \in Outcomes : UpdateRoleWrite(out)
    \/ \E req \in SignedRequests : WebhookReceive(req)
    \/ \E out \in Outcomes : WebhookFind(out)
    \/ \E out \in Outcomes : WebhookUpdate(out)

\* Every operation that reads or writes the users table, one family of
\* operations at a time: a family runs while the processes of the other
\* families have not been started.
NextOperations ==
    \/ su = SuIdle /\ upd = UpdIdle /\ wh = WhIdle /\ co = CoIdle /\ NextSignIn
    \/ si = SiIdle /\ upd = UpdIdle /\ wh = WhIdle /\ co = CoIdle /\ NextSignUp
    \/ si = SiIdle /\ su = SuIdle /\ co = CoIdle /\ NextRoleAndPlan
    \/ si = SiIdle /\ su = SuIdle /\ upd = UpdIdle /\ wh = WhIdle /\ CheckoutStep

SpecOperations == Init /\ [][NextOperations]_vars

\* The clients of the upgrade guard: each provider in app_metadata, with and
\* without a confirmed email, nobody signed in, and no configuration.
UpgradeClients ==
    {Client(TRUE, None, FALSE, Identity(a, None, << >>, c)) :
        a \in Providers \cup {None}, c \in BOOLEAN}
    \cup {DefaultClient, Client(FALSE, None, FALSE, NoIdentity)}

\* The feature-gating functions of one client: on each user object and local
\* store against an empty table, and on the clients of the upgrade guard
\* against a table with the client's own row.
GatingTables ==
    {tbl \in TablesUpTo(1) :
        \A i \in DOMAIN tbl : tbl[i] \in {Row(1, "a@x", r, p, None) :
                                             r \in Roles, p \in Plans}}

InitGating ==
    /\ users \in GatingTables
    /\ client \in Clients
    /\ users # << >> => client \in UpgradeClients
    /\ emailVerified = NoColumn
    /\ InitIdle

NextGating ==
    \/ \E fn \in {"getAuthStatus", "canChangePassword", "getAuthProvider",
                  "resendVerification"} : GateBegin(fn, NoId, None)
    \/ \E role \in RoleInputs : GateBegin("updateCurrentUserRole", NoId, role)
    \/ \E id \in Ids : GateBegin("verifyUserForUpgrade", id, None)
    \/ \E out \in Outcomes : GateGetUser(out)
    \/ GateUpdateCall
    \/ \E out \in Outcomes : UpdateRoleFetch(out)
    \/ \E out \in Outcomes : UpdateRoleWrite(out)
    \/ GateUpdateReturn
    \/ \E out \in Outcomes : GateResend(out)
    \/ \E out \in Outcomes : GateFetch(out)
    \/ \E out \in Outcomes : GateLive(out)
    \/ \E out \in Outcomes : GateLog(out)

SpecGating == InitGating /\ [][NextGating]_vars

\* The upgrade of an account: the guard is asked about the account, then the
\* checkout endpoint is called with the account's token, whatever the guard
\* said; getCurrentUser refreshes the stored email_verified at any time.
InitUpgrade ==
    /\ users \in TablesUpTo(1)
    /\ client \in UpgradeClients
    /\ emailVerified \in ColumnStates
    /\ InitIdle

NextUpgrade ==
    \/ co.pc = "idle" /\ \E id \in Ids : GateBegin("verifyUserForUpgrade", id, None)
    \/ \E out \in Outcomes : GateFetch(out)
    \/ \E out \in Outcomes : GateLive(out)
    \/ \E out \in Outcomes : GateLog(out)
    \/ \E out \in Outcomes : GetCurrentUserSync(out)
    \/ gate.pc = "done" /\ CheckoutBegin(TRUE, "ok", gate.uid)
    \/ \E out \in Outcomes : CheckoutFetch(out)
    \/ \E out \in {"ok", "throw"}, cust \in CustIds : CheckoutCustomer(out, cust)
    \/ \E out \in Outcomes : CheckoutSave(out)
    \/ \E out \in {"ok", "throw"} : CheckoutSession(out)

SpecUpgrade == InitUpgrade /\ [][NextUpgrade]_vars

\* The requests that tell the status classes apart: each method, each thing
\* the server can lack, a readable or unreadable body and each signature,
\* besides the requests of Requests.
StatusRequests ==
    Requests
    \cup {Request(post, env, rawOk, sig, Checkout, c, None) :
            post \in BOOLEAN, env \in Envs, rawOk \in BOOLEAN, sig \in Sigs,
            c \in CustIds}

\* The webhook endpoint alone, against a table of at most one account.
InitWebhook ==
    /\ users \in TablesUpTo(1)
    /\ InitClient
    /\ InitIdle

NextWebhook ==
    \/ \E req \in StatusRequests : WebhookReceive(req)
    \/ \E out \in {"ok", "throw"}, cust \in CustIds \cup {None} :
            WebhookRetrieve(out, cust)
    \/ \E out \in Outcomes : WebhookFind(out)
    \/ \E out \in Outcomes : WebhookUpdate(out)

SpecWebhook == InitWebhook /\ [][NextWebhook]_vars

\* A client, with or without configuration, whose session comes from an
\* auth-state event and is ended by signOutUser or by the listener's run.
InitSignOut ==
    /\ users \in TablesUpTo(1)
    /\ client \in {DefaultClient, Client(FALSE, None, FALSE, NoIdentity)}
    /\ emailVerified = NoColumn
    /\ InitIdle

NextSignOut ==
    \/ client.configured /\ \E u \in AuthUsers : AuthStateEvent(ListenerRun, u)
    \/ EnsureStep(ListenerRun)
    \/ SignOutBegin
    \/ \E out \in Outcomes : SignOutCall(out)
    \/ \E out \in Outcomes : SignOutGetUser(out)
    \/ \E out \in Outcomes : SignOutInsert(out)

SpecSignOut == InitSignOut /\ [][NextSignOut]_vars

\* The operations and their log writes; no write has to end.
NextLogging ==
    \/ \E op \in LogOps : LogOpBegin(op)
    \/ \E ans \in Outcomes \cup {"found", "denied", "refused"} : LogOpCall(ans)
    \/ \E out \in Outcomes : LogAwaitedEnds(out)
    \/ \E out \in Outcomes : AuthLogEnds(out)
    \/ \E out \in Outcomes : ErrLogEnds(out)

SpecLogging == InitJourney /\ [][NextLogging]_vars

(* ------------------------------ properties ---------------------------- *)

RowOf(id) == users[SelectById(users, id)]

\* Both runs were started for the same identity, id and email present.
SameIdentity(r1, r2) ==
    /\ r1 # r2
    /\ ens[r1].pc # "idle" /\ ens[r2].pc # "idle"
    /\ ens[r1].uid # NoId /\ ens[r1].email # None
    /\ ens[r1].uid = ens[r2].uid /\ ens[r1].email = ens[r2].email

\* A call on the store failed under the run (not a constraint of the table).
StoreFault(r) ==
    \/ ens[r].error \in {"DB error", "Exception"}
    \/ ens[r].error = "Failed to create user record" /\ ~ens[r].dup

\* A stored row disagrees with the identity: its id with another email, or
\* its email under another id.
Conflict(uid, email) ==
    \E i \in DOMAIN users :
        \/ users[i].id = uid /\ users[i].email # email
        \/ users[i].id # uid /\ users[i].email = email

\* C1: two concurrent ensureUserRowForAuth runs for the same identity, under
\* every interleaving of their lookups and inserts, never leave two rows for
\* its id, and leave exactly one once both have returned, whenever one of
\* them succeeded or neither met a store failure or a conflicting row.
C1_ExactlyOneRow ==
    \A r1, r2 \in Runs :
        SameIdentity(r1, r2) =>
            /\ CountById(users, ens[r1].uid) <= 1
            /\ ( /\ ens[r1].pc = "done" /\ ens[r2].pc = "done"
                 /\ \/ ens[r1].ok \/ ens[r2].ok
                    \/ /\ ~StoreFault(r1) /\ ~StoreFault(r2)
                       /\ ~Conflict(ens[r1].uid, ens[r1].email) )
               => CountById(users, ens[r1].uid) = 1

\* Both runs reached the insert: one inserted, the other lost on uniqueness.
C1_Witness ==
    \E r1, r2 \in Runs :
        /\ SameIdentity(r1, r2)
        /\ ens[r1].pc = "done" /\ ens[r1].ok
        /\ ens[r2].pc = "done" /\ ens[r2].dup
        /\ CountById(users, ens[r1].uid) = 1

\* The run's id is stored with another email.
Mismatch(r) ==
    /\ ens[r].pc # "idle"
    /\ \E i \in DOMAIN users :
         users[i].id = ens[r].uid /\ users[i].email # ens[r].email

\* C4: while the table holds the identity's id with a different email, no
\* step of the run changes any row, the run never succeeds, and its lookup
\* by id ends in the mismatch failure (or in a store failure).
C4_MismatchRejected ==
    [][\A r \in Runs :
         (Mismatch(r) /\ ens'[r] # ens[r]) =>
            /\ users' = users
            /\ ~ens'[r].ok
            /\ ens[r].pc = "byId" =>
                 /\ ens'[r].pc = "fail"
                 /\ ens'[r].error \in
                      {"User record inconsistency", "DB error", "Exception"}]_vars

C4_Witness ==
    \E r \in Runs :
        /\ Mismatch(r)
        /\ ens[r].pc = "done" /\ ~ens[r].ok /\ ens[r].so
        /\ ens[r].error = "User record inconsistency"

\* No row has the run's id and a row of another id holds its email.
EmailTaken(r) ==
    /\ ens[r].pc # "idle"
    /\ \A i \in DOMAIN users : users[i].id # ens[r].uid
    /\ \E i \in DOMAIN users : users[i].email = ens[r].email

\* C5: while no row has the identity's id and another id's row holds its
\* email, no step of the run inserts or changes a row (no merge, no
\* reassignment), the run never succeeds, its lookup by email ends in the
\* email-in-use failure (or a store failure), and it returns only after the
\* sign-out was attempted.
C5_EmailInUseRejected ==
    [][\A r \in Runs :
         (EmailTaken(r) /\ ens'[r] # ens[r]) =>
            /\ users' = users
            /\ ~ens'[r].ok
            /\ ens[r].pc = "byEmail" =>
                 /\ ens'[r].pc = "fail"
                 /\ ens'[r].error \in
                      {"Email already in use", "DB error", "Exception"}
            /\ ens'[r].pc = "done" => ens'[r].so]_vars

C5_Witness ==
    \E r \in Runs :
        /\ EmailTaken(r)
        /\ ens[r].pc = "done" /\ ~ens[r].ok /\ ens[r].so
        /\ ens[r].error = "Email already in use"

\* C6: every run that returns a failure has attempted the session sign-out
\* before returning, whatever the failure was.
C6_FailureSignsOut ==
    \A r \in Runs : (ens[r].pc = "done" /\ ~ens[r].ok) => ens[r].so

\* A run whose insert failed has returned its failure.
C6_Witness ==
    \E r \in Runs :
        /\ ens[r].pc = "done" /\ ~ens[r].ok
        /\ ens[r].error = "Failed to create user record"

\* The run's insert lost on uniqueness to a run for the same identity.
LostRace(r) ==
    /\ ens[r].dup
    /\ \E r2 \in Runs : SameIdentity(r, r2) /\ ens[r2].pc = "done" /\ ens[r2].ok

\* C8: a run whose insert loses the race on the uniqueness constraint treats
\* the row as existing: it returns no failure and does not sign out.
C8_LosingInsertIsNoFailure ==
    \A r \in Runs :
        (LostRace(r) /\ ens[r].pc = "done") => (ens[r].ok /\ ~ens[r].so)

C7_SignInFailsClosed ==
    (si.pc = "done" /\ si.authed /\ ~si.ok) => ~session.active

\* C2: every row with role recruiter has plan pro, in every state of the
\* table under every interleaving of role updates and webhook events.
C2_RecruiterImpliesPro ==
    \A i \in DOMAIN users : users[i].role = "recruiter" => users[i].plan = "pro"

\* The race: the role update read plan pro, the subscription-deleted event
\* downgraded the row, and the store refused the write of recruiter.
C2_Witness ==
    /\ upd.pc = "done" /\ upd.newRole = "recruiter" /\ upd.plan = "pro"
    /\ upd.error = "Failed to update role"
    /\ wh.type = Deleted /\ wh.wrote /\ wh.uid = upd.userId
    /\ RowOf(upd.userId).plan = "free"

\* C9: the update of a checkout-completed event changes nothing but plan and
\* role of the matched row, which end at pro and recruiter; so a second
\* delivery of the event, finding the row as the first one left it, leaves
\* the table unchanged.
C9_CheckoutIdempotent ==
    [][(wh.pc = "update" /\ wh.type = Checkout /\ wh' # wh) =>
         LET i == SelectById(users, wh.uid)
         IN  /\ DOMAIN users' = DOMAIN users
             /\ \A j \in DOMAIN users : j # i => users'[j] = users[j]
             /\ wh'.wrote =>
                  users'[i] = [users[i] EXCEPT !.plan = "pro", !.role = "recruiter"]
             /\ ~wh'.wrote => users' = users
             /\ (users[i].plan = "pro" /\ users[i].role = "recruiter")
                  => users' = users]_vars

\* The second delivery of an applied checkout event has been applied too.
C9_Witness ==
    /\ wh.pc = "done" /\ wh.type = Checkout /\ wh.replay /\ wh.wrote
    /\ RowOf(wh.uid).plan = "pro" /\ RowOf(wh.uid).role = "recruiter"

\* C10: a request whose signature header is missing or does not verify is
\* answered at once, without a read or a write of the table for it, and on
\* a configured server (POST) the answer is 400.
C10_BadSignatureRejected ==
    (wh.pc # "idle" /\ wh.sig # "valid") =>
        /\ wh.pc = "done"
        /\ ~wh.touched /\ ~wh.wrote
        /\ wh.status \in {400, 405, 500}
        /\ (wh.post /\ wh.env = "ok") => wh.status = 400

C10_Witness ==
    /\ wh.pc = "done" /\ wh.sig = "forged" /\ wh.post /\ wh.env = "ok"
    /\ wh.status = 400 /\ ~wh.touched

\* The handler has verified the signature and holds the event (wh.type is
\* set from the constructed event only).
EventVerified == wh.post /\ wh.env = "ok" /\ wh.sig = "valid" /\ wh.type # None

\* C11: every signature-valid event on a configured server is answered 200,
\* whatever happened while it was processed: unknown type, no customer, no
\* account, a failed lookup, a failed update, or a call that throws.
C11_ValidEventAlways200 ==
    (wh.pc = "done" /\ EventVerified) => wh.status = 200

\* C12: the update of a subscription-deleted event either leaves the table
\* as it is (the store refused or failed) or sets plan = free and role =
\* candidate of the matched row in the one step, and no row with plan free
\* and role recruiter exists before or after it.
C12_AtomicDowngrade ==
    [][(wh.pc = "update" /\ wh.type = Deleted /\ wh' # wh) =>
         LET i == SelectById(users, wh.uid)
         IN  /\ i # 0
             /\ \/ users' = users /\ ~wh'.wrote
                \/ /\ wh'.wrote
                   /\ users' = [users EXCEPT ![i] =
                                  [@ EXCEPT !.plan = "free", !.role = "candidate"]]
             /\ \A j \in DOMAIN users' :
                  ~(users[j].plan = "free" /\ users[j].role = "recruiter")
                  /\ ~(users'[j].plan = "free" /\ users'[j].role = "recruiter")]_vars

\* A recruiter on pro was read by a role update, and the subscription-deleted
\* event has since downgraded the row to free and candidate.
C12_Witness ==
    /\ wh.pc = "done" /\ wh.type = Deleted /\ wh.wrote
    /\ RowOf(wh.uid).plan = "free" /\ RowOf(wh.uid).role = "candidate"
    /\ upd.userId = wh.uid /\ upd.plan = "pro" /\ upd.newRole = "recruiter"

\* C13: no step of the webhook handler adds or removes a row or changes the
\* id, the email or the billing reference of one; a step changes at most one
\* row, the row the handler matched by the event's customer id, and of that
\* row at most plan and role.
C13_WebhookFrame ==
    [][(wh' # wh) =>
         /\ DOMAIN users' = DOMAIN users
         /\ \A j \in DOMAIN users :
              /\ users'[j].id = users[j].id
              /\ users'[j].email = users[j].email
              /\ users'[j].cust = users[j].cust
              /\ users'[j] # users[j] =>
                   /\ users[j].cust = wh.cust
                   /\ users[j].id = wh.uid
                   /\ j = SelectByCustomer(users, wh.cust)]_vars

\* An event was applied to one of two rows: the other row has another state.
C13_Witness ==
    /\ wh.pc = "done" /\ wh.wrote /\ wh.type = Checkout
    /\ Len(users) = 2
    /\ \E j \in DOMAIN users : users[j].id # wh.uid /\ users[j].plan = "free"
    /\ RowOf(wh.uid).plan = "pro"

\* C16: updateUserRole returns a structured rejection and leaves the table
\* as it is for a role outside {candidate, recruiter} ("Invalid role"), for
\* an id without a row ("User not found") and for recruiter on a plan other
\* than pro (the upgrade error); every failed call leaves the table
\* unchanged, and a successful one has changed nothing but the role of the
\* row with the given id.
C16_UpdateRoleRejections ==
    [][(upd' # upd) =>
         LET i == SelectById(users, upd'.userId)
             rejected == upd'.pc = "done" /\ ~upd'.ok
             fault == upd'.error \in {"Failed to fetch user", "Exception"}
         IN  /\ rejected => users' = users
             /\ upd.pc \in {"idle", "done"} =>
                  IF upd'.newRole \in Roles
                  THEN upd'.pc = "fetch"
                  ELSE rejected /\ upd'.error = "Invalid role"
             /\ (upd.pc = "fetch" /\ ~fault /\ i = 0) =>
                  rejected /\ upd'.error = "User not found"
             /\ ( /\ upd.pc = "fetch" /\ ~fault /\ i # 0
                  /\ upd.newRole = "recruiter" /\ users[i].plan # "pro" ) =>
                  rejected /\ upd'.error = "Upgrade to Pro to use recruiter role"
             /\ upd'.ok =>
                  /\ upd.pc = "update" /\ upd.newRole \in Roles
                  /\ users' = RoleUpdated(users, upd.userId, upd.newRole)
                  /\ \A j \in DOMAIN users :
                       users'[j] = [users[j] EXCEPT !.role = users'[j].role]]_vars

\* A role change has succeeded and the three rejections are reachable: here
\* the upgrade rejection of a recruiter request on a free plan.
C16_Witness ==
    /\ upd.pc = "done" /\ ~upd.ok /\ upd.newRole = "recruiter"
    /\ upd.error = "Upgrade to Pro to use recruiter role"
    /\ RowOf(upd.userId).plan = "free" /\ RowOf(upd.userId).role = "candidate"

\* The failures of a sign-up that come from a failed call, not from a rule.
SignUpFaults == {"Failed to validate email", "Unknown signup error"}

\* C17: a sign-up whose email has a row when the duplicate check reads the
\* table returns the email-exists error (or the error of a failed check) at
\* that step, with no upstream signUp call made, no session and no row
\* inserted or changed; the upstream identity is created only by the step
\* that follows a passed check.
C17_ExistingEmailRejectedFirst ==
    [][(su' # su) =>
         /\ (su.pc = "check" /\ SelectByEmail(users, su.email) # 0) =>
              /\ su'.pc = "done" /\ ~su'.ok /\ ~su'.created
              /\ su'.error \in
                   {"Email already exists, please sign in"} \cup SignUpFaults
              /\ users' = users /\ session' = session /\ ens' = ens
         /\ su'.error = "Email already exists, please sign in" =>
              ~su'.created /\ su'.uid = NoId
         /\ (su'.created /\ ~su.created) => su.pc = "auth"]_vars

C17_Witness ==
    /\ su.pc = "done" /\ su.error = "Email already exists, please sign in"
    /\ ~su.created /\ SelectByEmail(users, su.email) # 0

\* C18: when a sign-up has returned, an upstream identity it created has an
\* account row for its email.
C18_NoOrphanIdentity ==
    (su.pc = "done" /\ su.created) => SelectByEmail(users, su.email) # 0

\* The account row of the sign-up's email.
SignUpRow == users[SelectByEmail(users, su.email)]

\* C19: after every successful sign-up the account of the email has plan
\* free and satisfies recruiter => pro, its role is candidate when the
\* requested role was unspecified or no role (and the requested role when
\* this call inserted the row), and the returned user has plan free and
\* isEmailVerified = false.
C19_SignUpDefaults ==
    (su.pc = "done" /\ su.ok) =>
        /\ SelectByEmail(users, su.email) # 0
        /\ SignUpRow.plan = "free" /\ RecruiterRequiresPro(SignUpRow)
        /\ su.reqRole \notin Roles => SignUpRow.role = "candidate"
        /\ su.inserted => SignUpRow.role = su.role
        /\ su.user.email = su.email /\ su.user.plan = "free"
        /\ su.user.isEmailVerified = FALSE

\* A sign-up with a role that is no role has inserted its row.
C19_Witness ==
    /\ su.pc = "done" /\ su.ok /\ su.inserted /\ su.reqRole = "admin"
    /\ SignUpRow.role = "candidate" /\ SignUpRow.plan = "free"

\* C20: a row inserted by a sign-up has the id of the identity the sign-up
\* created, and an identity a reconciliation run succeeded for has a row
\* with its id and email: no row of an authenticated user has an id the
\* store generated.
C20_RowIdIsIdentityId ==
    /\ (su.pc = "done" /\ su.ok /\ su.inserted) =>
          su.uid # NoId /\ SignUpRow.id = su.uid
    /\ \A r \in Runs :
          (ens[r].pc = "done" /\ ens[r].ok) =>
             \E i \in DOMAIN users :
                users[i].id = ens[r].uid /\ users[i].email = ens[r].email

C15_EndToEnd ==
    [][ /\ (su'.ok /\ ~su.ok) =>
              LET row == users'[SelectByEmail(users', su.email)]
              IN  /\ row.plan = "free" /\ row.role = "candidate"
                  /\ su'.user.isEmailVerified = FALSE
                  /\ su'.user.id = row.id
        /\ (upd.pc = "fetch" /\ upd' # upd) =>
              LET i == SelectById(users, upd.userId)
              IN  /\ (i # 0 /\ users[i].plan = "free") =>
                       /\ upd'.pc = "done" /\ ~upd'.ok
                       /\ upd'.error = "Upgrade to Pro to use recruiter role"
                       /\ users' = users
                  /\ (i # 0 /\ users[i].plan = "pro") => upd'.pc = "update"
        /\ (upd.pc = "update" /\ upd' # upd) =>
              /\ upd'.ok
              /\ users'[SelectById(users, upd.userId)].role = "recruiter"
              /\ users'[SelectById(users, upd.userId)].plan = "pro"
        /\ \A j \in DOMAIN users :
              users'[j].plan # users[j].plan =>
                 /\ wh.pc = "update" /\ wh.type = Checkout
                 /\ users[j].cust = wh.cust /\ users[j].id = wh.uid
                 /\ users'[j].plan = "pro"
        /\ (wh.pc = "update" /\ wh' # wh) =>
              /\ wh'.status = 200
              /\ users'[SelectById(users, wh.uid)].plan = "pro" ]_vars

\* The scenario has run to its end: the signed-up account went through the
\* checkout, the event upgraded it and its recruiter request succeeded.
C15_Witness ==
    /\ su.pc = "done" /\ su.ok /\ su.inserted
    /\ co.pc = "done" /\ co.status = 200 /\ co.uid = su.user.id
    /\ wh.pc = "done" /\ wh.wrote /\ wh.uid = su.user.id
    /\ upd.pc = "done" /\ upd.ok /\ upd.userId = su.user.id
    /\ SignUpRow.plan = "pro" /\ SignUpRow.role = "recruiter"
    /\ SignUpRow.cust = wh.cust

(* ---------------- properties of the feature-gating surface ------------ *)

\* The function fn has returned.
GateDid(fn) == gate.fn = fn /\ gate.pc = "done"

\* getUser answered a user object to the function that has returned.
GateSawUser ==
    client.configured /\ gate.out = "ok" /\ client.user # NoIdentity

\* C21: for a signed-in identity whose provider is not "email" getAuthStatus
\* returns isEmailVerified = true with or without email_confirmed_at; for an
\* email-provider identity isEmailVerified is true exactly when
\* email_confirmed_at is present.
C21_OAuthImpliesVerified ==
    GateDid("getAuthStatus") /\ GateSawUser =>
        LET provider == StatusProvider(client.user)
        IN  /\ provider # None /\ Lower(provider) # "email" =>
                    gate.flags.isEmailVerified = "true"
            /\ provider # None /\ Lower(provider) = "email" =>
                    (gate.flags.isEmailVerified = "true" <=> client.user.confirmed)

\* C21 witness: getAuthStatus has returned for a google identity whose email
\* is not confirmed.
C21_Witness ==
    /\ GateDid("getAuthStatus") /\ GateSawUser
    /\ StatusProvider(client.user) = "google"
    /\ ~client.user.confirmed
    /\ gate.flags.isEmailVerified = "true"

\* No source of the user object names a provider (or nobody is signed in).
Undeterminable(user) ==
    user.app = None /\ user.identities = << >> /\ user.top = None

\* C22: with the backend configured canChangePassword returns false when no
\* provider can be determined and when the identity fetch fails or throws,
\* whatever password the local fallback store holds.
C22_UndeterminedIsFalse ==
    /\ GateDid("canChangePassword")
    /\ client.configured
    /\ gate.out # "ok" \/ Undeterminable(client.user)
    => gate.can = FALSE

\* C22 witness: canChangePassword has returned for a signed-in user object
\* without any provider while the local store holds a session with a password.
C22_Witness ==
    /\ GateDid("canChangePassword") /\ GateSawUser
    /\ Undeterminable(client.user)
    /\ client.local # None /\ client.pwd
    /\ gate.can = FALSE

\* C23: with the backend configured canChangePassword returns true only when
\* the provider getAuthProvider returns for the identity is "email", and
\* never for an identity getAuthStatus reports as isOAuthUser.
C23_PasswordOnlyForEmailProvider ==
    GateDid("canChangePassword") /\ client.configured /\ gate.can =>
        /\ ProviderOf(client.user) = "email"
        /\ FlagsOf(StatusProvider(client.user),
                   client.user.confirmed).isOAuthUser # "true"

\* C27: without a configured backend, or without a current session,
\* getAuthStatus returns exactly the guest defaults, also when the local store
\* holds a session email.
C27_GuestDefaultsWithoutBackend ==
    /\ GateDid("getAuthStatus")
    /\ ~client.configured \/ (gate.out = "ok" /\ client.user = NoIdentity)
    => gate.flags = GuestDefaults

\* C28: the isOAuthUser and isEmailUser flags getAuthStatus returns for an
\* identity are those of the provider getAuthProvider returns for it (app
\* metadata, then first identity, then top-level provider, then null).
C28_FlagsAgreeWithProvider ==
    GateDid("getAuthStatus") /\ GateSawUser =>
        LET expected == FlagsOf(ProviderOf(client.user), client.user.confirmed)
        IN  /\ gate.flags.isOAuthUser = expected.isOAuthUser
            /\ gate.flags.isEmailUser = expected.isEmailUser

\* verifyUserForUpgrade has returned after finding the row of the account.
VerifiedRow ==
    /\ GateDid("verifyUserForUpgrade")
    /\ client.configured
    /\ gate.out = "ok"
    /\ SelectById(users, gate.uid) # 0

\* C24: for an account whose stored email_verified is false
\* verifyUserForUpgrade returns email_not_verified; with the stored value true
\* it returns ok, whatever the live identity's email_confirmed_at is.
C24_StoredFlagDecides ==
    VerifiedRow =>
        /\ gate.stored = "false" => gate.text = "email_not_verified"
        /\ gate.stored = "true" => gate.text = "ok"

\* C24 witness: the guard has returned ok on a stored true while the live
\* identity is an email account without a confirmed email.
C24_Witness ==
    /\ VerifiedRow
    /\ gate.stored = "true"
    /\ gate.out2 = "ok"
    /\ LiveUnverified(client.user)
    /\ gate.text = "ok"

\* The reason the priority order gives when every call answers: the stored
\* column decides when the row has it, the live identity when it has not.
ExpectedReason ==
    CASE ~client.configured -> "supabase_not_configured"
      [] SelectById(users, gate.uid) = 0 -> "user_not_found"
      [] gate.stored # Absent /\ gate.stored = "false" -> "email_not_verified"
      [] gate.stored = Absent /\ LiveUnverified(client.user) ->
            "email_not_verified"
      [] OTHER -> "ok"

\* C25: when its calls answer, verifyUserForUpgrade returns the first reason
\* of: not configured, user not found, email not verified (stored column if
\* the row has one, else the live identity: an email identity without
\* email_confirmed_at is blocked, an OAuth identity never), else ok.
C25_ReasonPriority ==
    /\ GateDid("verifyUserForUpgrade")
    /\ client.configured => gate.out = "ok" /\ gate.out2 \in {None, "ok"}
    => gate.text = ExpectedReason

\* verifyUserForUpgrade would return email_not_verified for the account now.
WouldBlock(id) ==
    /\ client.configured
    /\ SelectById(users, id) # 0
    /\ \/ StoredUnverified(emailVerified[id])
       \/ LiveUnverified(UpgradeLiveUser(GetUserResponse(client.user).data))

\* C26: the checkout endpoint creates no Stripe customer and no checkout
\* session for an account for which verifyUserForUpgrade would return
\* email_not_verified.
C26_NoCheckoutForUnverified ==
    [][(\/ co.pc = "customer" /\ co'.pc = "save"
        \/ co.pc = "session" /\ co'.pc = "done" /\ co'.status = 200)
       => ~WouldBlock(co.uid)]_vars

\* C29: none of the feature-gating functions lets an exception out, whatever
\* its backend calls and the error-log write do, and getAuthStatus returns the
\* guest defaults when its identity fetch fails.
C29_NoExceptionEscapes ==
    /\ gate.pc # "thrown"
    /\ GateDid("getAuthStatus") /\ gate.out \in {"error", "throw"} =>
            gate.flags = GuestDefaults

\* C29 witness: a function has returned after its backend call threw and the
\* error-log write of its catch block threw as well.
C29_Witness ==
    /\ gate.pc = "done"
    /\ gate.fn \in Fns
    /\ gate.out = "throw"
    /\ gate.logOut = "throw"

\* C30: no operation waits for a log write: signIn, signUp, updateRole and
\* the reconciliation return without a log write having to end.
C30_LogWritesNeverAwaited == lg.pc # "log"

(* ------------- properties of sign-out, webhook and checkout ----------- *)

\* C31: the sign-out a failing reconciliation run forces does not hold its
\* failure back: a run that has failed has returned, whether or not the
\* sign-out call has ended.
C31_FailureNotBlockedBySignOut ==
    \A r \in Runs : ens[r].error # None /\ ~ens[r].so => ens[r].pc = "done"

\* C35: when signIn returns a user, the listener's reconciliation run for
\* the same session, unless a call on the store failed under it, succeeds:
\* it does not reject the session signIn reported as signed in.
C35_SignInAgreesWithListener ==
    /\ si.pc = "done" /\ si.ok
    /\ ens[ListenerRun].pc = "done"
    /\ ens[ListenerRun].email = si.email
    /\ ~StoreFault(ListenerRun)
    => ens[ListenerRun].ok

\* What the server lacks makes the handler refuse before it reads the body.
Misconfigured(env) ==
    env \in {"STRIPE_SECRET_KEY", "STRIPE_WEBHOOK_SECRET",
             "SUPABASE_SERVICE_ROLE_KEY"}

C33_MissingSecretAccepts ==
    wh.pc = "done" /\ wh.post /\ wh.env = "STRIPE_WEBHOOK_SECRET" =>
        wh.status = 200

\* C34: whenever create-checkout-session answers 200, the account's row
\* carries the customer of the checkout session that was created, also when
\* the save of the customer id failed, so that the later event resolves to
\* the account.
C34_RowCarriesSessionCustomer ==
    [][ co.pc = "session" /\ co'.pc = "done" /\ co'.status = 200 =>
            LET i == SelectById(users', co.uid)
            IN  i # 0 /\ users'[i].cust = co.cust ]_vars

\* C37: in every result of getAuthStatus isOAuthUser and isEmailUser are never
\* both true; in a result that is not a guest's exactly one of them is true;
\* in a guest's result isOAuthUser, isEmailUser and isEmailVerified are false.
C37_ProviderFlagsExclusive ==
    GateDid("getAuthStatus") =>
        LET f == gate.flags
        IN  /\ ~(f.isOAuthUser = "true" /\ f.isEmailUser = "true")
            /\ f.isGuest = "false" =>
                    (f.isOAuthUser = "true") # (f.isEmailUser = "true")
            /\ f.isGuest = "true" =>
                    /\ f.isOAuthUser = "false"
                    /\ f.isEmailUser = "false"
                    /\ f.isEmailVerified = "false"

\* C37 witness: getAuthStatus has returned for a signed-in google identity:
\* not a guest, an OAuth user and not an email user.
C37_Witness ==
    /\ GateDid("getAuthStatus") /\ GateSawUser
    /\ StatusProvider(client.user) = "google"
    /\ client.user.confirmed
    /\ gate.flags.isGuest = "false"
    /\ gate.flags.isOAuthUser = "true"
    /\ gate.flags.isEmailUser = "false"

\* C38: createUserRecord is idempotent per email: when a row with the email
\* exists it returns that row and inserts or changes nothing; for the role
\* recruiter with a plan other than pro it throws and inserts nothing; and
\* the row it writes never has the role recruiter on a plan other than pro.
C38_CreateUserRecordIdempotent ==
    [][ LET i == SelectByEmail(users, su.email)
            lookedUp == su.pc = "lookup" /\ su'.pc # "lookup"
            inserting == su.pc = "insert" /\ su'.pc # "insert"
        IN  /\ lookedUp /\ i # 0 =>
                  /\ users' = users
                  /\ su'.pc = "done"
                  /\ su'.ok => /\ su'.user = SignUpUser(users[i])
                               /\ ~su'.inserted
            /\ lookedUp /\ i = 0 /\ su.role = "recruiter"
                        /\ CreateUserPlan(su.role) # "pro" =>
                  /\ users' = users
                  /\ su'.pc = "done" /\ ~su'.ok /\ su'.error # None
            /\ inserting /\ users' # users =>
                  /\ i = 0
                  /\ Len(users') = Len(users) + 1
                  /\ SubSeq(users', 1, Len(users)) = users
                  /\ users'[Len(users')].email = su.email
                  /\ ~(users'[Len(users')].role = "recruiter"
                         /\ users'[Len(users')].plan # "pro") ]_vars

\* C38 witness: createUserRecord has returned the row that was there for the
\* email when it looked, without inserting one.
C38_Witness ==
    /\ su.pc = "done" /\ su.created
    /\ su.ok /\ ~su.inserted
    /\ SelectByEmail(users, su.email) # 0
    /\ su.user.id = users[SelectByEmail(users, su.email)].id

\* C36: the LOGOUT row signOutUser writes identifies the session that was
\* signed out: its user_id and email are those of the identity that was
\* authenticated when signOutUser was called.
C36_LogoutNamesSignedOutSession ==
    sout.pc = "done" /\ sout.logged =>
        sout.logUid = sout.uid /\ sout.logEmail = sout.email

====
